---- MODULE Spec2Model ----
(***************************************************************************)
(* A model of the arbitrage simulator's core: the engine                   *)
(* (backend/app/engine.py), the feed adapters that deliver books to it     *)
(* (backend/app/market_data.py), the persistence pipeline                  *)
(* (backend/app/persistence.py, backend/app/db.py) and the service that    *)
(* starts and stops them (backend/app/service.py).                         *)
(*                                                                         *)
(* Numbers.  The program computes in 64-bit floats; the model computes the *)
(* same expressions exactly, on integer grids chosen so that every         *)
(* division the model performs is exact for the inputs it draws:           *)
(*   - a quantity is a number of ticks, QtyScale ticks to one base unit;   *)
(*   - a price is an integer number of USD per base unit;                  *)
(*   - a fee rate is fee / FeeScale;                                       *)
(*   - an amount of money (balances, VWAPs, costs, PnL) is a number of     *)
(*     money ticks, MoneyScale ticks to one USD.                           *)
(* Float rounding is therefore not modelled.                               *)
(*                                                                         *)
(* Specifications.  Spec is the trading side: the feeds deliver books to   *)
(* on_order_book and set_simulation_volume_usd is called; the persistence  *)
(* worker is not scheduled, so the queue fills.  QuerySpec adds the        *)
(* facade's requests, which run the engine's locked operations while the   *)
(* feeds deliver.  ServiceSpec is the life of the service: start, the      *)
(* feeds, the persistence worker writing to the database, and stop; its    *)
(* fairness is that of the event loop, which runs every task that is ready.*)
(* QueryLiveSpec is QuerySpec under that scheduling.  AdapterSpec drives   *)
(* the adapters on their own: start, the run loop with its failures, stop; *)
(* AdapterLiveSpec is the run loops of started adapters, with the wake-up  *)
(* after a sleep.  RebalanceSpec applies rebalance_quotes to an engine     *)
(* whose wallets hold given balances, and StoreSpec runs the requests on a *)
(* database that may hold rows of a previous run.  ReconfigureSpec is the  *)
(* running service with one call of set_symbol or set_exchange_enabled,    *)
(* whose stop of the feeds is interleaved with the feeds' own steps.       *)
(* ScenarioSpec is the engine on its own, given the books, configurations  *)
(* and wallets of the worked scenarios.  SimulatedSpec is the run loop of  *)
(* the simulated adapter and StreamSpec the connection cycle of the        *)
(* streaming adapters (connect, read, silence, failure, sleep); in both,   *)
(* what the callback does with a book is left to the other specifications. *)
(* TransferSpec applies the two transfer functions to an engine on its     *)
(* own, for every pair of venues and a set of amounts, and ListingSpec the *)
(* listings with a symbol filter to the rings of an engine that is given   *)
(* books of two symbols. TradingSpec is the engine on its own with         *)
(* rebalance_quotes, on books one or two trades deep and wallets that      *)
(* trading has left rich, funded to the cent, or short. AnyWalletsSpec is  *)
(* RebalanceSpec with the engines of no wallet and of one wallet added.    *)
(* CancelSpec is the adapters started, stopped and started again while     *)
(* they deliver, without failures.                                         *)
(*                                                                         *)
(* History.  `evaluations` records, for each directed pair the latest      *)
(* on_order_book call evaluated, the opportunity and the engine before and *)
(* after that turn of the loop; `handled` records the events the worker    *)
(* has finished with; the field `delivered` of a feed records the books    *)
(* the adapter has handed to on_order_book, in its order.  No guard and no *)
(* program variable depends on them.                                       *)
(***************************************************************************)
EXTENDS Integers, Sequences, FiniteSets, TLC

\* ---------------------------------------------------------------- units
\* a fee rate (FeedConfig.fee) is fee / FeeScale
FeeScale == 1000
\* engine.py:50 and :59: a wallet starts with 2000/3000 ETH; with three ticks
\* to one ETH that is two ticks.
QtyScale == 3
MoneyScale == 12 * QtyScale * FeeScale

\* ----------------------------------------------- program constants
INITIAL_USD_PER_CRYPTO_PER_WALLET == 2000
INITIAL_USDT_PER_WALLET == 2000
\* DEFAULT_ASSET_PRICES_USD["ETH"], USD per ETH
DEFAULT_PRICE_ETH == 3000
\* NETWORK_FEE_UNITS["ETH"] = 0.003 ETH, in thousandths of one ETH
NETWORK_FEE_ETH_MILLI == 3
\* NETWORK_FEE_UNITS of the stable quotes = 1.0, in thousandths
NETWORK_FEE_STABLE_MILLI == 1000
\* _network_fee_units: the default of an asset not in the table, 0.5
NETWORK_FEE_DEFAULT_MILLI == 500
\* BinanceDepthFeed(stale_timeout_sec=10.0), seconds
STALE_TIMEOUT_SEC == 10

\* ------------------------------------------------------------ bounds
\* deque(maxlen=600), deque(maxlen=300), deque(maxlen=600) and
\* asyncio.Queue(maxsize=5000), scaled down so that TLC fills them
OPP_MAXLEN == 3
TRADE_MAXLEN == 2
METRICS_MAXLEN == 3
QUEUE_MAXSIZE == 2
\* the number of books all feeds together deliver in one run
MaxBooks == 3
\* the same in a run that goes on to the shutdown of the service
MaxServiceBooks == 2
\* the number of requests the facade makes in one run
MaxRequests == 1
\* the largest `limit` a request asks for
MaxLimit == 2
\* the number of books the feeds deliver in a run with requests
MaxQueryBooks == 2
\* the number of books the feeds deliver in a run of adapters started and stopped
MaxAdapterBooks == 2
\* the number of books the feeds deliver in a run of adapters that fail and retry
MaxRetryBooks == 2
\* calls of set_symbol and set_exchange_enabled in a run, and books while they are made
MaxCalls == 1
MaxCallBooks == 2
\* books of a run of the scenarios, and calls of set_simulation_volume_usd in it
MaxScenarioBooks == 3
MaxVolumeCalls == 1
\* SimulatedDepthFeed.depth_levels (20 in the default configuration), scaled down
DEPTH_LEVELS == 3
\* the number of books the simulated adapters together deliver
MaxSimulatedBooks == 2
\* the messages the streaming adapters together read, and the sleeps of an
\* adapter without a message between them
MaxStreamReads == 1
MaxFailures == 2
\* the transfers of a run of the transfers on their own
MaxTransfers == 2
\* the books of a run of the listings of two symbols
MaxListingBooks == 4
\* the books of a run of trading on thin books
MaxTradingBooks == 3
\* the books of a run of the adapters stopped during their deliveries
MaxCancelBooks == 3
\* Database.list_*: limit = max(1, min(int(limit), 5000))
STORE_LIMIT_CAP == 5000

Venues == {"a", "b", "c"}
Symbols == {"ETHUSDT"}
STABLE_QUOTES == {"USDT", "USDC", "USD", "EUR"}
NoPair == <<>>

\* ------------------------------------------------------- pure helpers
\* a / b where the grid makes it exact; the model has no value for an inexact one
ExactDiv(x, y) == CASE x % y = 0 -> x \div y

Min(x, y) == IF x <= y THEN x ELSE y
Max(x, y) == IF x >= y THEN x ELSE y

\* _split_symbol_pair, on the symbols of the model
split_symbol_pair(symbol) ==
    IF symbol = "ETHUSDT" THEN <<"ETH", "USDT">> ELSE NoPair

\* (_split_symbol_pair(symbol) or ("BASE", "USDT"))[0]
base_asset_of(symbol) ==
    IF split_symbol_pair(symbol) = NoPair THEN "BASE" ELSE split_symbol_pair(symbol)[1]

\* _network_fee_units, in thousandths of a unit
network_fee_units(asset) ==
    IF asset = "ETH" THEN NETWORK_FEE_ETH_MILLI
    ELSE IF asset \in STABLE_QUOTES THEN NETWORK_FEE_STABLE_MILLI
    ELSE NETWORK_FEE_DEFAULT_MILLI

\* _reference_asset_price, USD per unit
reference_asset_price(asset) ==
    IF asset = "ETH" THEN DEFAULT_PRICE_ETH ELSE 1

\* the loop of _compute_vwap_for_buy / _compute_vwap_for_sell from level i on:
\* acc = [remaining, total, filled]
RECURSIVE vwap_walk(_, _, _)
vwap_walk(levels, i, acc) ==
    IF i > Len(levels) \/ acc.remaining <= 0 THEN acc
    ELSE LET take == Min(levels[i].quantity, acc.remaining)
         IN  IF take <= 0 THEN vwap_walk(levels, i + 1, acc)
             ELSE vwap_walk(levels, i + 1,
                            [remaining |-> acc.remaining - take,
                             total |-> acc.total + levels[i].price * take,
                             filled |-> acc.filled + take])

\* _compute_vwap_for_buy: (avg_price in money ticks per base unit, filled)
compute_vwap_for_buy(levels, quantity) ==
    LET r == vwap_walk(levels, 1, [remaining |-> quantity, total |-> 0, filled |-> 0])
    IN  [avg_price |-> IF r.filled > 0 THEN ExactDiv(MoneyScale * r.total, r.filled) ELSE 0,
         filled |-> r.filled]

\* _compute_vwap_for_sell: the same walk over the bids
compute_vwap_for_sell(levels, quantity) ==
    LET r == vwap_walk(levels, 1, [remaining |-> quantity, total |-> 0, filled |-> 0])
    IN  [avg_price |-> IF r.filled > 0 THEN ExactDiv(MoneyScale * r.total, r.filled) ELSE 0,
         filled |-> r.filled]

\* a reservation that leaves the levels as they are
reserve_nothing(levels, quantity) == levels

\* a reservation that consumes from the first level alone
reserve_first_level(levels, quantity) ==
    IF levels = <<>> \/ quantity <= 0 THEN levels
    ELSE <<[Head(levels) EXCEPT !.quantity = @ - Min(@, quantity)]>> \o Tail(levels)

\* _reserve_from_levels: the levels after consuming `quantity` from the front
RECURSIVE reserve_from_levels(_, _)
reserve_from_levels(levels, quantity) ==
    IF levels = <<>> \/ quantity <= 0 THEN levels
    ELSE IF Head(levels).quantity <= 0
         THEN <<Head(levels)>> \o reserve_from_levels(Tail(levels), quantity)
    ELSE LET consume == Min(Head(levels).quantity, quantity)
         IN  <<[Head(levels) EXCEPT !.quantity = @ - consume]>>
             \o reserve_from_levels(Tail(levels), quantity - consume)

\* a ring that refuses the new record when it is full
deque_append_keep_oldest(q, x, maxlen) ==
    IF Len(q) < maxlen THEN Append(q, x) ELSE q

\* deque(maxlen=n).append
deque_append(q, x, maxlen) ==
    IF Len(q) < maxlen THEN Append(q, x)
    ELSE IF maxlen = 0 THEN q
    ELSE Append(Tail(q), x)

\* ------------------------------------------------------------ inputs
Level(p, q) == [price |-> p, quantity |-> q]

\* the depth a feed can deliver: bids descending, asks ascending, best bid
\* below best ask, no level of quantity zero
Shapes ==
    [Low  |-> [bids |-> <<Level(890, 2)>>,
               asks |-> <<Level(900, 2), Level(903, 2)>>],
     High |-> [bids |-> <<Level(930, 2), Level(924, 2)>>,
               asks |-> <<Level(1350, 2)>>],
     Thin |-> [bids |-> <<Level(901, 1)>>,
               asks |-> <<Level(1350, 1)>>],
     Rich |-> [bids |-> <<Level(2690, 2)>>,
               asks |-> <<Level(2700, 3)>>]]

\* the shapes each venue's feed draws its books from
ShapesOf(v) ==
    IF v = "a" THEN {"Low", "Rich"}
    ELSE IF v = "b" THEN {"High", "Thin"}
    ELSE {"High"}

\* the configurations of a run (AppConfig): trade_size in quantity ticks,
\* fees in 1/FeeScale, money in money ticks
FeesOf == [v \in Venues |-> IF v = "c" THEN 2 ELSE 1]

\* AppConfig.symbol as load_config gives it: the symbol the service starts with
config_symbol == CHOOSE s \in Symbols : TRUE

\* `enabled` is the set of the feeds whose FeedConfig.enabled holds
Config(size, auto, threshold) ==
    [symbol |-> config_symbol, enabled |-> Venues,
     trade_size |-> size, auto_simulate_execution |-> auto,
     opportunity_threshold_usd |-> threshold,
     transfer_cost_usd |-> MoneyScale, starting_balance_usd |-> 10000 * MoneyScale]

Configs ==
    { Config(1, TRUE, ExactDiv(MoneyScale, 100)),
      Config(2, TRUE, 16 * MoneyScale),
      Config(1, FALSE, ExactDiv(MoneyScale, 100)),
      Config(0, TRUE, ExactDiv(MoneyScale, 100)) }

\* the USD notionals set_simulation_volume_usd is called with
Volumes == {2700}

\* --------------------------------------------------------- the state
VARIABLES
    config,                 \* ArbitrageEngine.config
    fees,                   \* ArbitrageEngine.fees
    order_books,            \* ArbitrageEngine.order_books
    inventory_by_exchange,  \* ArbitrageEngine.inventory_by_exchange
    total_pnl_usd,          \* ArbitrageEngine.total_pnl_usd
    balance_usd,            \* ArbitrageEngine.balance_usd
    opportunities,          \* ArbitrageEngine.opportunities
    executed_trades,        \* ArbitrageEngine.executed_trades
    metrics_log,            \* ArbitrageEngine.metrics_log
    simulation_volume_usd,  \* ArbitrageEngine.simulation_volume_usd
    queue,                  \* PersistenceManager._queue
    evaluations,            \* history: the pair evaluations of the latest on_order_book
    lock,                   \* ArbitrageEngine._lock: its holder and its waiters
    feed,                   \* per venue: the feed task and its on_order_book call
    handler,                \* per request handler: its call into the engine
    requests,               \* the number of requests made so far
    worker,                 \* PersistenceManager._task and the position of _run
    handled,                \* history: the events _run has finished with, in order
    database,               \* Database: its engine and the rows of its two tables
    service                 \* ArbitrageService: how far start() and stop() have got

None == "None"
\* simulation_volume_usd = None (the setter stores None or a positive number)
NoVolume == 0

\* the engine's fields as one record, for the operators that compute on them
Eng ==
    [config |-> config, fees |-> fees, order_books |-> order_books,
     inventory_by_exchange |-> inventory_by_exchange,
     total_pnl_usd |-> total_pnl_usd, balance_usd |-> balance_usd,
     opportunities |-> opportunities, executed_trades |-> executed_trades,
     metrics_log |-> metrics_log, simulation_volume_usd |-> simulation_volume_usd,
     queue |-> queue, evaluations |-> evaluations]

\* a symbol's books: the insertion order of the dict's keys and its values
NoBooks == [keys |-> <<>>, book |-> <<>>]

\* order_books.get(symbol, {})
books_of(e, symbol) ==
    IF symbol \in DOMAIN e.order_books THEN e.order_books[symbol] ELSE NoBooks

\* NormalizedOrderBook.best_bid / best_ask, 0 standing for None
best_bid(book) == IF book.bids = <<>> THEN 0 ELSE book.bids[1].price
best_ask(book) == IF book.asks = <<>> THEN 0 ELSE book.asks[1].price

\* dict.get(exchange, 0.0) of the fee table
fee_of(e, exchange) == IF exchange \in DOMAIN e.fees THEN e.fees[exchange] ELSE 0

\* a size that is the configured one whether an override is set or not
resolve_trade_size_configured(e, buy_book) == e.config.trade_size

\* _resolve_trade_size, in quantity ticks
resolve_trade_size(e, buy_book) ==
    IF e.simulation_volume_usd = NoVolume THEN e.config.trade_size
    ELSE IF best_ask(buy_book) <= 0 THEN 0
    ELSE ExactDiv(QtyScale * e.simulation_volume_usd, best_ask(buy_book))

\* a read of a base balance that reports ten units whatever the wallet holds
get_base_balance_assumed(e, exchange, base_asset) == 10 * QtyScale

\* _get_base_balance
get_base_balance(e, exchange, base_asset) ==
    IF exchange \notin DOMAIN e.inventory_by_exchange THEN 0
    ELSE IF base_asset \notin DOMAIN e.inventory_by_exchange[exchange].asset_balances THEN 0
    ELSE e.inventory_by_exchange[exchange].asset_balances[base_asset]

\* the price _find_exchange_asset_price_usd reads off one book, money ticks
book_mid_price(book) ==
    IF best_bid(book) > 0 /\ best_ask(book) > 0
    THEN ExactDiv(MoneyScale * (best_bid(book) + best_ask(book)), 2)
    ELSE MoneyScale * Max(best_bid(book), best_ask(book))

\* _find_exchange_asset_price_usd, money ticks per unit
find_exchange_asset_price_usd(e, exchange, asset) ==
    IF asset \in STABLE_QUOTES THEN MoneyScale
    ELSE LET syms == {s \in DOMAIN e.order_books :
                         /\ split_symbol_pair(s) # NoPair
                         /\ split_symbol_pair(s)[1] = asset
                         /\ split_symbol_pair(s)[2] \in STABLE_QUOTES
                         /\ exchange \in DOMAIN e.order_books[s].book}
             prices == {book_mid_price(e.order_books[s].book[exchange]) : s \in syms}
             best_price == IF prices = {} THEN 0
                           ELSE CHOOSE p \in prices : \A r \in prices : r <= p
         IN  IF best_price > 0 THEN best_price
             ELSE MoneyScale * reference_asset_price(asset)

\* a transfer cost that is the configured flat amount whatever the asset
estimate_transfer_fee_flat(e, symbol, reference_price, exchange) ==
    e.config.transfer_cost_usd

\* estimate_transfer_fee(...)[2]: the transfer cost of an evaluation, money ticks
estimate_transfer_fee(e, symbol, reference_price, exchange) ==
    LET parsed == split_symbol_pair(symbol)
    IN  IF parsed = NoPair THEN e.config.transfer_cost_usd
        ELSE LET fee_units == network_fee_units(parsed[1])
                 unit_price_usd ==
                     IF parsed[2] \in STABLE_QUOTES /\ reference_price > 0
                     THEN reference_price
                     ELSE find_exchange_asset_price_usd(e, exchange, parsed[1])
             IN  IF unit_price_usd <= 0 THEN e.config.transfer_cost_usd
                 ELSE ExactDiv(fee_units * unit_price_usd, 1000)

\* _transfer_cost_for_asset, money ticks
transfer_cost_for_asset(e, asset, exchange) ==
    ExactDiv(network_fee_units(asset) * find_exchange_asset_price_usd(e, exchange, asset), 1000)

\* buy_vwap * (1 + buy_fee), money ticks per unit
unit_with_fee(vwap, fee) == ExactDiv(vwap, FeeScale) * (FeeScale + fee)
\* sell_vwap * (1 - sell_fee), money ticks per unit
unit_after_fee(vwap, fee) == ExactDiv(vwap, FeeScale) * (FeeScale - fee)
\* a per-unit amount times a size in quantity ticks, money ticks
times_size(unit_amount, size) == ExactDiv(unit_amount * size, QtyScale)

Opportunity(status, reason, buy_book, sell_book, size, profit, buy_vwap, sell_vwap) ==
    [status |-> status, reason |-> reason, symbol |-> buy_book.symbol,
     buy_exchange |-> buy_book.exchange, sell_exchange |-> sell_book.exchange,
     trade_size |-> size, expected_profit_usd |-> profit,
     buy_vwap |-> buy_vwap, sell_vwap |-> sell_vwap,
     buy_book_updated_at |-> buy_book.exchange_timestamp,
     sell_book_updated_at |-> sell_book.exchange_timestamp]

\* the quote balance _evaluate_pair reads, 0.0 when the venue has no wallet
quote_balance_of(e, exchange) ==
    IF exchange \in DOMAIN e.inventory_by_exchange
    THEN e.inventory_by_exchange[exchange].quote_balance ELSE 0

\* the checks without those of the two balances
classify_without_funds(size, filled, buy_total, quote_balance, base_balance, net_profit) ==
    IF filled < size
    THEN [status |-> "insufficient_liquidity", reason |-> "insufficient_depth"]
    ELSE IF net_profit <= 0
    THEN [status |-> "discarded", reason |-> "fees_and_transfer_filtered"]
    ELSE [status |-> "accepted", reason |-> "profitable"]

\* the checks with profitability tested before the balances
classify_profit_first(size, filled, buy_total, quote_balance, base_balance, net_profit) ==
    IF filled < size
    THEN [status |-> "insufficient_liquidity", reason |-> "insufficient_depth"]
    ELSE IF net_profit <= 0
    THEN [status |-> "discarded", reason |-> "fees_and_transfer_filtered"]
    ELSE IF buy_total > quote_balance
    THEN [status |-> "no_funds", reason |-> "insufficient_quote_balance"]
    ELSE IF base_balance < size
    THEN [status |-> "no_funds", reason |-> "insufficient_base_balance"]
    ELSE [status |-> "accepted", reason |-> "profitable"]

\* the checks of _evaluate_pair that follow the two VWAP walks, in their order
\* (lines 519, 560, 581, 600): the status and reason of the opportunity returned
classify(size, filled, buy_total, quote_balance, base_balance, net_profit) ==
    IF filled < size
    THEN [status |-> "insufficient_liquidity", reason |-> "insufficient_depth"]
    ELSE IF buy_total > quote_balance
    THEN [status |-> "no_funds", reason |-> "insufficient_quote_balance"]
    ELSE IF base_balance < size
    THEN [status |-> "no_funds", reason |-> "insufficient_base_balance"]
    ELSE IF net_profit <= 0
    THEN [status |-> "discarded", reason |-> "fees_and_transfer_filtered"]
    ELSE [status |-> "accepted", reason |-> "profitable"]

\* _evaluate_pair once both VWAP walks are done (lines 517-635); the amounts
\* are not computed when a walk fell short of the size
evaluate_filled(e, buy_book, sell_book, size, buy, sell) ==
    LET filled == Min(buy.filled, sell.filled)
        buy_unit_with_fee == unit_with_fee(buy.avg_price, fee_of(e, buy_book.exchange))
        sell_unit_after_fee == unit_after_fee(sell.avg_price, fee_of(e, sell_book.exchange))
        transfer_cost_usd ==
            estimate_transfer_fee(e, buy_book.symbol, buy.avg_price, buy_book.exchange)
        net_profit ==
            IF filled < size THEN 0
            ELSE times_size(sell_unit_after_fee - buy_unit_with_fee, size)
                    - transfer_cost_usd
        buy_total_with_fee ==
            IF filled < size THEN 0 ELSE times_size(buy_unit_with_fee, size)
        c == classify(size, filled, buy_total_with_fee,
                      quote_balance_of(e, buy_book.exchange),
                      get_base_balance(e, sell_book.exchange,
                                       base_asset_of(buy_book.symbol)),
                      net_profit)
    IN  Opportunity(c.status, c.reason, buy_book, sell_book, size, net_profit,
                    buy.avg_price, sell.avg_price)

\* _evaluate_pair
evaluate_pair(e, buy_book, sell_book, size) ==
    IF size <= 0
    THEN Opportunity("discarded", "invalid_trade_size", buy_book, sell_book, size, 0, 0, 0)
    ELSE evaluate_filled(e, buy_book, sell_book, size,
                         compute_vwap_for_buy(buy_book.asks, size),
                         compute_vwap_for_sell(sell_book.bids, size))

\* ----------------------------------------------------- persistence queue
PersistEvent(kind, payload) == [kind |-> kind, payload |-> payload]

\* a queue that takes every event
put_unbounded(q, event) == Append(q, event)

\* asyncio.Queue.put_nowait inside submit_opportunity / submit_trade: the
\* event is appended, or QueueFull is caught and the queue left as it is
put_nowait(q, event) ==
    IF Len(q) >= QUEUE_MAXSIZE THEN q ELSE Append(q, event)

\* a submit_opportunity that hands the event to the queue twice
submit_opportunity_twice(e, item) ==
    [e EXCEPT !.queue = put_nowait(put_nowait(@, PersistEvent("opportunity", item)),
                                   PersistEvent("opportunity", item))]

\* PersistenceManager.submit_opportunity
submit_opportunity(e, item) ==
    [e EXCEPT !.queue = put_nowait(@, PersistEvent("opportunity", item))]

\* PersistenceManager.submit_trade
submit_trade(e, item) ==
    [e EXCEPT !.queue = put_nowait(@, PersistEvent("trade", item))]

\* ------------------------------------------------- inventory and transfers
EmptyWallet == [quote_asset |-> "USDT", quote_balance |-> 0, asset_balances |-> <<>>]

\* inventory_by_exchange.setdefault(exchange, {...})
with_wallet(inv, exchange) ==
    IF exchange \in DOMAIN inv THEN inv
    ELSE [x \in DOMAIN inv \cup {exchange} |-> IF x = exchange THEN EmptyWallet ELSE inv[x]]

\* asset_balances[base_asset] = asset_balances.get(base_asset, 0.0) + delta
add_to_balances(balances, base_asset, delta) ==
    [x \in DOMAIN balances \cup {base_asset} |->
        IF x = base_asset
        THEN (IF x \in DOMAIN balances THEN balances[x] ELSE 0) + delta
        ELSE balances[x]]

\* a base balance that takes credits and ignores debits
add_base_credit_only(e, exchange, base_asset, delta) ==
    LET inv == with_wallet(e.inventory_by_exchange, exchange)
    IN  [e EXCEPT !.inventory_by_exchange =
            [inv EXCEPT ![exchange].asset_balances =
                add_to_balances(@, base_asset, Max(delta, 0))]]

\* _add_base_balance
add_base_balance(e, exchange, base_asset, delta) ==
    LET inv == with_wallet(e.inventory_by_exchange, exchange)
    IN  [e EXCEPT !.inventory_by_exchange =
            [inv EXCEPT ![exchange].asset_balances = add_to_balances(@, base_asset, delta)]]

\* a transfer cost taken off the balance only
apply_transfer_cost_balance_only(e, cost_usd) ==
    [e EXCEPT !.balance_usd = @ - Max(cost_usd, 0)]

\* a transfer cost taken off the realized PnL only
apply_transfer_cost_pnl_only(e, cost_usd) ==
    [e EXCEPT !.total_pnl_usd = @ - Max(cost_usd, 0)]

\* _apply_transfer_cost
apply_transfer_cost(e, cost_usd) ==
    [e EXCEPT !.total_pnl_usd = @ - Max(cost_usd, 0),
              !.balance_usd = @ - Max(cost_usd, 0)]

\* a quote transfer that does not look at the source balance
transfer_quote_unchecked(e, from_exchange, to_exchange, amount) ==
    IF amount <= 0 THEN [ok |-> FALSE, e |-> e]
    ELSE IF from_exchange \notin DOMAIN e.inventory_by_exchange
            \/ to_exchange \notin DOMAIN e.inventory_by_exchange
    THEN [ok |-> FALSE, e |-> e]
    ELSE [ok |-> TRUE,
          e |-> apply_transfer_cost(
                    [e EXCEPT !.inventory_by_exchange[from_exchange].quote_balance = @ - amount,
                              !.inventory_by_exchange[to_exchange].quote_balance = @ + amount],
                    transfer_cost_for_asset(e, e.inventory_by_exchange[from_exchange].quote_asset,
                                            from_exchange))]

\* _transfer_quote_between_exchanges: [ok, e]
transfer_quote_between_exchanges(e, from_exchange, to_exchange, amount) ==
    IF amount <= 0 THEN [ok |-> FALSE, e |-> e]
    ELSE IF from_exchange \notin DOMAIN e.inventory_by_exchange
            \/ to_exchange \notin DOMAIN e.inventory_by_exchange
    THEN [ok |-> FALSE, e |-> e]
    ELSE IF e.inventory_by_exchange[from_exchange].quote_balance < amount
    THEN [ok |-> FALSE, e |-> e]
    ELSE LET moved ==
                 [e EXCEPT !.inventory_by_exchange =
                     [x \in DOMAIN @ |->
                         IF x = to_exchange
                         THEN [@[x] EXCEPT !.quote_balance =
                                  (IF x = from_exchange THEN @ - amount ELSE @) + amount]
                         ELSE IF x = from_exchange
                         THEN [@[x] EXCEPT !.quote_balance = @ - amount]
                         ELSE @[x]]]
             quote_asset == e.inventory_by_exchange[from_exchange].quote_asset
         IN  [ok |-> TRUE,
              e |-> apply_transfer_cost(moved,
                        transfer_cost_for_asset(moved, quote_asset, from_exchange))]

\* _transfer_base_between_exchanges: [ok, e]
transfer_base_between_exchanges(e, from_exchange, to_exchange, base_asset, amount) ==
    IF amount <= 0 THEN [ok |-> FALSE, e |-> e]
    ELSE IF get_base_balance(e, from_exchange, base_asset) < amount
    THEN [ok |-> FALSE, e |-> e]
    ELSE LET moved == add_base_balance(
                          add_base_balance(e, from_exchange, base_asset, 0 - amount),
                          to_exchange, base_asset, amount)
         IN  [ok |-> TRUE,
              e |-> apply_transfer_cost(moved,
                        transfer_cost_for_asset(moved, base_asset, from_exchange))]

SimulatedTrade(opportunity) ==
    [symbol |-> opportunity.symbol, buy_exchange |-> opportunity.buy_exchange,
     sell_exchange |-> opportunity.sell_exchange, size |-> opportunity.trade_size,
     pnl_usd |-> opportunity.expected_profit_usd]

\* a buy cost that leaves the fee out
buy_cost_without_fee(e, opportunity) ==
    times_size(opportunity.buy_vwap, opportunity.trade_size)

\* buy_cost = buy_vwap * trade_size * (1 + buy_fee)
buy_cost_of(e, opportunity) ==
    times_size(unit_with_fee(opportunity.buy_vwap, fee_of(e, opportunity.buy_exchange)),
               opportunity.trade_size)

\* sell_value = sell_vwap * trade_size * (1 - sell_fee)
sell_value_of(e, opportunity) ==
    times_size(unit_after_fee(opportunity.sell_vwap, fee_of(e, opportunity.sell_exchange)),
               opportunity.trade_size)

\* _simulate_execution from the wallet updates on (lines 685-710)
complete_execution(e, opportunity) ==
    LET buy_x == opportunity.buy_exchange
        sell_x == opportunity.sell_exchange
        base_asset == base_asset_of(opportunity.symbol)
        paid == [e EXCEPT !.inventory_by_exchange[buy_x].quote_balance =
                              @ - buy_cost_of(e, opportunity)]
        received == [paid EXCEPT !.inventory_by_exchange[sell_x].quote_balance =
                                     @ + sell_value_of(e, opportunity)]
        moved == add_base_balance(
                     add_base_balance(received, buy_x, base_asset, opportunity.trade_size),
                     sell_x, base_asset, 0 - opportunity.trade_size)
        books == moved.order_books[opportunity.symbol]
        left == [x \in DOMAIN books.book |->
                    [books.book[x] EXCEPT
                        !.asks = IF x = buy_x
                                 THEN reserve_from_levels(@, opportunity.trade_size)
                                 ELSE @,
                        !.bids = IF x = sell_x
                                 THEN reserve_from_levels(@, opportunity.trade_size)
                                 ELSE @]]
        reserved ==
            [moved EXCEPT
                !.order_books =
                    [s \in DOMAIN moved.order_books |->
                        IF s = opportunity.symbol
                        THEN [keys |-> books.keys, book |-> left]
                        ELSE moved.order_books[s]]]
        booked == [reserved EXCEPT
                      !.total_pnl_usd = @ + opportunity.expected_profit_usd,
                      !.balance_usd = @ + opportunity.expected_profit_usd,
                      !.executed_trades =
                          deque_append(@, SimulatedTrade(opportunity), TRADE_MAXLEN)]
    IN  IF booked.executed_trades # <<>>
        THEN submit_trade(booked, booked.executed_trades[Len(booked.executed_trades)])
        ELSE booked

\* _simulate_execution: the engine after it, and whether it ran to its end
simulate_execution(e, opportunity) ==
    LET buy_x == opportunity.buy_exchange
        sell_x == opportunity.sell_exchange
        base_asset == base_asset_of(opportunity.symbol)
        e0 == [e EXCEPT !.inventory_by_exchange = with_wallet(with_wallet(@, buy_x), sell_x)]
        buy_cost == buy_cost_of(e0, opportunity)
        buy_shortfall == buy_cost - e0.inventory_by_exchange[buy_x].quote_balance
        e1 == IF buy_shortfall > 0
              THEN transfer_quote_between_exchanges(e0, sell_x, buy_x, buy_shortfall).e
              ELSE e0
        sell_shortfall == opportunity.trade_size - get_base_balance(e1, sell_x, base_asset)
        e2 == IF sell_shortfall > 0
              THEN transfer_base_between_exchanges(e1, buy_x, sell_x, base_asset,
                                                   sell_shortfall).e
              ELSE e1
    IN  IF e1.inventory_by_exchange[buy_x].quote_balance < buy_cost
        THEN [completed |-> FALSE, e |-> e1]
        ELSE IF get_base_balance(e2, sell_x, base_asset) < opportunity.trade_size
        THEN [completed |-> FALSE, e |-> e2]
        ELSE [completed |-> TRUE, e |-> complete_execution(e2, opportunity)]

\* the metrics sample _evaluate_all_pairs appends
MetricsSample(opportunity, last_exchange) ==
    [expected_profit_usd |-> opportunity.expected_profit_usd,
     status |-> opportunity.status, reason |-> opportunity.reason,
     pair |-> <<opportunity.buy_exchange, opportunity.sell_exchange>>,
     trigger_exchange |-> last_exchange]

\* the condition without its threshold
should_simulate_any_accepted(e, opportunity) ==
    /\ e.config.auto_simulate_execution
    /\ opportunity.status = "accepted"

\* the condition of lines 479-483 under which the simulator is invoked
should_simulate(e, opportunity) ==
    /\ e.config.auto_simulate_execution
    /\ opportunity.status = "accepted"
    /\ opportunity.expected_profit_usd >= e.config.opportunity_threshold_usd

\* the engine's fields as an evaluation finds or leaves them
engine_view(e) ==
    [order_books |-> e.order_books, inventory_by_exchange |-> e.inventory_by_exchange,
     total_pnl_usd |-> e.total_pnl_usd, balance_usd |-> e.balance_usd,
     opportunities |-> e.opportunities, executed_trades |-> e.executed_trades,
     metrics_log |-> e.metrics_log, simulation_volume_usd |-> e.simulation_volume_usd,
     queue |-> e.queue]

\* lines 460-477: the opportunity goes to its ring, to persistence when it is
\* accepted, and its sample to the metrics ring
record_opportunity(e, opportunity, last_exchange) ==
    LET appended == [e EXCEPT !.opportunities = deque_append(@, opportunity, OPP_MAXLEN)]
        submitted == IF opportunity.status = "accepted"
                     THEN submit_opportunity(appended, opportunity)
                     ELSE appended
    IN  [submitted EXCEPT
            !.metrics_log = deque_append(@, MetricsSample(opportunity, last_exchange),
                                         METRICS_MAXLEN)]

\* lines 479-484: the simulator is invoked, or not
maybe_simulate(e, opportunity) ==
    IF should_simulate(e, opportunity) THEN simulate_execution(e, opportunity)
    ELSE [completed |-> FALSE, e |-> e]

\* the turn is written to the history, with the engine before and after it
observed(e, opportunity, run) ==
    [run.e EXCEPT !.evaluations =
        Append(@, [opportunity |-> opportunity,
                   simulated |-> should_simulate(e, opportunity),
                   completed |-> run.completed,
                   before |-> engine_view(e), after |-> engine_view(run.e)])]

\* lines 446-484: what one turn of the loop does with the opportunity
evaluate_turn(e, opportunity, last_exchange) ==
    observed(e, opportunity,
             maybe_simulate(record_opportunity(e, opportunity, last_exchange),
                            opportunity))

\* one turn of the loop of _evaluate_all_pairs (lines 443-484)
evaluate_one_pair(e, symbol, buy_exchange, sell_exchange, last_exchange) ==
    LET buy_book == e.order_books[symbol].book[buy_exchange]
        sell_book == e.order_books[symbol].book[sell_exchange]
    IN  IF buy_book.symbol # sell_book.symbol THEN e
        ELSE evaluate_turn(e, evaluate_pair(e, buy_book, sell_book,
                                            resolve_trade_size(e, buy_book)),
                           last_exchange)

\* itertools.permutations(exchanges, 2), in its order
permutations2(exchanges) ==
    LET n == Len(exchanges)
        at(k) == <<exchanges[((k - 1) \div (n - 1)) + 1],
                   LET i == ((k - 1) \div (n - 1)) + 1
                       j == ((k - 1) % (n - 1)) + 1
                   IN  exchanges[IF j >= i THEN j + 1 ELSE j]>>
    IN  IF n < 2 THEN <<>> ELSE [k \in 1..(n * (n - 1)) |-> at(k)]

\* the loop of _evaluate_all_pairs over pairs[i..]
RECURSIVE evaluate_pairs_from(_, _, _, _, _)
evaluate_pairs_from(e, symbol, pairs, i, last_exchange) ==
    IF i > Len(pairs) THEN e
    ELSE evaluate_pairs_from(
             evaluate_one_pair(e, symbol, pairs[i][1], pairs[i][2], last_exchange),
             symbol, pairs, i + 1, last_exchange)

\* _evaluate_all_pairs
evaluate_all_pairs(e, symbol, last_exchange) ==
    evaluate_pairs_from([e EXCEPT !.evaluations = <<>>], symbol,
                        permutations2(e.order_books[symbol].keys), 1, last_exchange)

\* books_by_exchange[book.exchange] = book, in the dict that
\* order_books.setdefault(book.symbol, {}) gives  (lines 432-433)
store_book(e, book) ==
    LET books == books_of(e, book.symbol)
        stored == [keys |-> IF book.exchange \in DOMAIN books.book THEN books.keys
                            ELSE Append(books.keys, book.exchange),
                   book |-> [x \in DOMAIN books.book \cup {book.exchange} |->
                                IF x = book.exchange THEN book ELSE books.book[x]]]
    IN  [e EXCEPT !.order_books =
            [s \in DOMAIN e.order_books \cup {book.symbol} |->
                IF s = book.symbol THEN stored ELSE e.order_books[s]]]

\* on_order_book as one call run on its own: the book is stored and all pairs
\* of its symbol are evaluated (lines 430-434)
on_order_book(e, book) ==
    evaluate_all_pairs(store_book(e, book), book.symbol, book.exchange)

\* the calls of books, one after the other in that order
RECURSIVE on_order_books(_, _, _)
on_order_books(e, books, i) ==
    IF i > Len(books) THEN e
    ELSE on_order_books(on_order_book(e, books[i]), books, i + 1)


\* ------------------------------------------------------------ rebalance
\* the order in which dict iteration meets the wallets (config.feeds order)
VenueOrder == <<"a", "b", "c", "d">>
wallet_keys(e) == SelectSeq(VenueOrder, LAMBDA x : x \in DOMAIN e.inventory_by_exchange)

\* max(wallets, key=wallets.get): the first key of the largest value
first_max(keys, wallets) ==
    keys[CHOOSE i \in 1..Len(keys) :
            /\ \A j \in 1..Len(keys) : wallets[keys[j]] <= wallets[keys[i]]
            /\ \A j \in 1..(i - 1) : wallets[keys[j]] < wallets[keys[i]]]

\* min(wallets, key=wallets.get): the first key of the smallest value
first_min(keys, wallets) ==
    keys[CHOOSE i \in 1..Len(keys) :
            /\ \A j \in 1..Len(keys) : wallets[keys[j]] >= wallets[keys[i]]
            /\ \A j \in 1..(i - 1) : wallets[keys[j]] > wallets[keys[i]]]

RECURSIVE sum_seq(_, _)
sum_seq(keys, wallets) ==
    IF keys = <<>> THEN 0 ELSE wallets[Head(keys)] + sum_seq(Tail(keys), wallets)

\* a loop that moves the donor's whole surplus in each transfer
RECURSIVE rebalance_loop_whole_surplus(_, _, _, _, _, _)
rebalance_loop_whole_surplus(e, keys, wallets, target_balance, moved_quote, transfer_count) ==
    LET donor == first_max(keys, wallets)
        receiver == first_min(keys, wallets)
        transfer_amount == wallets[donor] - target_balance
        done == [e |-> e, transfers |-> transfer_count, moved_quote_usd |-> moved_quote,
                 target_quote_usd |-> target_balance]
        r == transfer_quote_between_exchanges(e, donor, receiver, transfer_amount)
    IN  IF transfer_amount <= ExactDiv(MoneyScale, 100) THEN done
        ELSE IF ~r.ok THEN done
        ELSE rebalance_loop_whole_surplus(r.e, keys,
                            [wallets EXCEPT ![donor] = @ - transfer_amount,
                                            ![receiver] = @ + transfer_amount],
                            target_balance, moved_quote + transfer_amount,
                            transfer_count + 1)

\* the `while True` loop of rebalance_quotes (lines 382-398)
RECURSIVE rebalance_loop(_, _, _, _, _, _)
rebalance_loop(e, keys, wallets, target_balance, moved_quote, transfer_count) ==
    LET donor == first_max(keys, wallets)
        receiver == first_min(keys, wallets)
        transfer_amount == Min(wallets[donor] - target_balance,
                               target_balance - wallets[receiver])
        done == [e |-> e, transfers |-> transfer_count, moved_quote_usd |-> moved_quote,
                 target_quote_usd |-> target_balance]
        r == transfer_quote_between_exchanges(e, donor, receiver, transfer_amount)
    IN  IF transfer_amount <= ExactDiv(MoneyScale, 100) THEN done
        ELSE IF ~r.ok THEN done
        ELSE rebalance_loop(r.e, keys,
                            [wallets EXCEPT ![donor] = @ - transfer_amount,
                                            ![receiver] = @ + transfer_amount],
                            target_balance, moved_quote + transfer_amount,
                            transfer_count + 1)

\* rebalance_quotes, inside the lock
rebalance_quotes(e) ==
    LET keys == wallet_keys(e)
        wallets == [x \in DOMAIN e.inventory_by_exchange |->
                       e.inventory_by_exchange[x].quote_balance]
    IN  IF Len(keys) < 2
        THEN [e |-> e, transfers |-> 0, moved_quote_usd |-> 0, target_quote_usd |-> 0]
        ELSE rebalance_loop(e, keys, wallets,
                            ExactDiv(sum_seq(keys, wallets), Len(keys)), 0, 0)

\* -------------------------------------------------------------- queries
\* s[-limit:], as Python slices a list: a negative index counts from the
\* end, and -0 is the index 0
slice_last(s, limit) ==
    LET start == IF -limit < 0 THEN Max(Len(s) - limit, 0) ELSE Min(-limit, Len(s))
    IN  SubSeq(s, start + 1, Len(s))

\* `if symbols: items = [item for item in items if item.symbol in symbols_set]`
symbol_filter(items, symbols) ==
    IF symbols = {} THEN items
    ELSE SelectSeq(items, LAMBDA item : item.symbol \in symbols)

\* lines 755-779: what one directed pair adds to `generated`
generated_pair(e, buy_book, sell_book, symbols, volume) ==
    IF buy_book.symbol # sell_book.symbol THEN <<>>
    ELSE IF symbols # {} /\ buy_book.symbol \notin symbols THEN <<>>
    ELSE IF best_ask(buy_book) <= 0 THEN <<>>
    ELSE <<evaluate_pair(e, buy_book, sell_book,
                         ExactDiv(QtyScale * volume, best_ask(buy_book)))>>

\* the loop of lines 754-779 over pairs[i..] of one symbol's books
RECURSIVE generated_from(_, _, _, _, _, _)
generated_from(e, books, pairs, i, symbols, volume) ==
    IF i > Len(pairs) THEN <<>>
    ELSE generated_pair(e, books[pairs[i][1]], books[pairs[i][2]], symbols, volume)
         \o generated_from(e, books, pairs, i + 1, symbols, volume)

\* lines 750-779 over the symbols of S (the model holds books of one symbol)
RECURSIVE generated_opportunities(_, _, _, _)
generated_opportunities(e, S, symbols, volume) ==
    IF S = {} THEN <<>>
    ELSE LET s == CHOOSE x \in S : TRUE
         IN  generated_from(e, e.order_books[s].book,
                            permutations2(e.order_books[s].keys), 1, symbols, volume)
             \o generated_opportunities(e, S \ {s}, symbols, volume)

\* what a locked operation hands back: the engine after it, whether it has
\* returned or is awaiting the store, and its result
Answer(e, returned, result) == [e |-> e, returned |-> returned, result |-> result]

\* lines 784-800 and 804-820: the ring's items, or the store when there are none
\* (the service builds its engine with the database as the store)
items_or_store(e, ring, limit, symbols) ==
    IF symbol_filter(slice_last(ring, limit), symbols) # <<>>
    THEN Answer(e, TRUE, symbol_filter(slice_last(ring, limit), symbols))
    ELSE Answer(e, FALSE, <<>>)

\* list_opportunities up to its return or its await of the store
list_opportunities(e, limit, symbols, volume) ==
    IF volume > 0 /\ generated_opportunities(e, DOMAIN e.order_books, symbols, volume) # <<>>
    THEN Answer(e, TRUE,
                slice_last(generated_opportunities(e, DOMAIN e.order_books, symbols, volume),
                           limit))
    ELSE items_or_store(e, e.opportunities, limit, symbols)

\* list_trades up to its return or its await of the store
list_trades(e, limit, symbols) == items_or_store(e, e.executed_trades, limit, symbols)

\* a spread_series that takes the samples it returns out of the ring
spread_series_popping(e, limit) ==
    Answer([e EXCEPT !.metrics_log = SubSeq(@, 1, Len(@) - Len(slice_last(@, limit)))],
           TRUE, slice_last(e.metrics_log, limit))

\* spread_series
spread_series(e, limit) == Answer(e, TRUE, slice_last(e.metrics_log, limit))

\* the loop of _estimate_wallet_value_usd over the assets of A, money ticks
RECURSIVE assets_value(_, _, _)
assets_value(e, exchange, A) ==
    IF A = {} THEN 0
    ELSE LET asset == CHOOSE x \in A : TRUE
             balance == e.inventory_by_exchange[exchange].asset_balances[asset]
         IN  (IF balance <= 0 THEN 0
              ELSE times_size(find_exchange_asset_price_usd(e, exchange, asset), balance))
             + assets_value(e, exchange, A \ {asset})

\* _estimate_wallet_value_usd
estimate_wallet_value_usd(e, exchange) ==
    e.inventory_by_exchange[exchange].quote_balance
    + assets_value(e, exchange, DOMAIN e.inventory_by_exchange[exchange].asset_balances)

\* required_quote of _wallet_status: best_ask * trade_size * (1 + fee), or 0
required_quote(e, exchange) ==
    IF exchange \notin DOMAIN books_of(e, e.config.symbol).book THEN 0
    ELSE IF best_ask(books_of(e, e.config.symbol).book[exchange]) <= 0 THEN 0
    ELSE times_size(unit_with_fee(MoneyScale * best_ask(books_of(e, e.config.symbol).book[exchange]),
                                  fee_of(e, exchange)),
                    e.config.trade_size)

\* _wallet_status
wallet_status(e, exchange) ==
    LET low_quote == /\ required_quote(e, exchange) > 0
                     /\ quote_balance_of(e, exchange) < required_quote(e, exchange)
        low_base == get_base_balance(e, exchange, base_asset_of(e.config.symbol))
                        < e.config.trade_size
    IN  IF split_symbol_pair(e.config.symbol) = NoPair THEN "OK"
        ELSE IF low_quote /\ low_base THEN "Low quote & base"
        ELSE IF low_quote THEN "Low quote"
        ELSE IF low_base THEN "Low base"
        ELSE "OK"

\* _inventory_view
inventory_view(e) ==
    [x \in DOMAIN e.inventory_by_exchange |->
        [quote_asset |-> e.inventory_by_exchange[x].quote_asset,
         quote_balance |-> e.inventory_by_exchange[x].quote_balance,
         base_asset |-> base_asset_of(e.config.symbol),
         base_balance |-> get_base_balance(e, x, base_asset_of(e.config.symbol)),
         asset_balances |-> e.inventory_by_exchange[x].asset_balances,
         total_value_usd |-> estimate_wallet_value_usd(e, x),
         status |-> wallet_status(e, x)]]

\* snapshot
snapshot(e) ==
    Answer(e, TRUE,
           [symbol |-> e.config.symbol,
            trade_size |-> e.config.trade_size,
            simulation_volume_usd |-> e.simulation_volume_usd,
            balance_usd |-> e.balance_usd,
            total_pnl_usd |-> e.total_pnl_usd,
            portfolio_total_usd |->
                sum_seq(wallet_keys(e),
                        [x \in DOMAIN e.inventory_by_exchange |->
                            estimate_wallet_value_usd(e, x)]),
            inventory_by_exchange |-> inventory_view(e),
            active_exchanges |->
                UNION {DOMAIN e.order_books[s].book : s \in DOMAIN e.order_books},
            latest_opportunity |->
                IF e.opportunities = <<>> THEN <<>>
                ELSE <<e.opportunities[Len(e.opportunities)]>>])

\* --------------------------------------------------------------- the lock
\* asyncio.Lock: acquire takes a free lock at once and otherwise joins the
\* waiters; release hands the lock to the first waiter
lock_free(l) == l.holder = None /\ l.waiters = <<>>

\* a lock whose acquire never waits
lock_acquire_barging(l, t) == [l EXCEPT !.holder = t]

lock_acquire(l, t) ==
    IF lock_free(l) THEN [l EXCEPT !.holder = t]
    ELSE [l EXCEPT !.waiters = Append(@, t)]

\* a lock that is freed without being handed to the first waiter
lock_release_forgetting(l) == [holder |-> None, waiters |-> l.waiters]

lock_release(l) ==
    IF l.waiters = <<>> THEN [holder |-> None, waiters |-> <<>>]
    ELSE [holder |-> Head(l.waiters), waiters |-> Tail(l.waiters)]

\* ------------------------------------------------------------------ Init
NoBook == [exchange |-> None, symbol |-> None, bids |-> <<>>, asks |-> <<>>,
           exchange_timestamp |-> 0]

\* _build_initial_inventory
build_initial_inventory(exchanges, base_assets) ==
    [x \in exchanges |->
        [quote_asset |-> "USDT",
         quote_balance |-> INITIAL_USDT_PER_WALLET * MoneyScale,
         asset_balances |->
            [asset \in base_assets |->
                ExactDiv(INITIAL_USD_PER_CRYPTO_PER_WALLET * QtyScale,
                         reference_asset_price(asset))]]]

Handlers == {"h1"}
\* a request of the facade: an engine operation and its arguments
Request(op, limit, symbols, volume) ==
    [op |-> op, limit |-> limit, symbols |-> symbols, volume |-> volume]
NoRequest == Request(None, 0, {}, NoVolume)
Ops == {"snapshot", "list_opportunities", "list_trades", "spread_series",
        "rebalance_quotes"}

evars == <<config, fees, order_books, inventory_by_exchange, total_pnl_usd, balance_usd,
           opportunities, executed_trades, metrics_log, simulation_volume_usd, queue,
           evaluations>>
vars == <<config, fees, order_books, inventory_by_exchange, total_pnl_usd, balance_usd,
          opportunities, executed_trades, metrics_log, simulation_volume_usd, queue,
          evaluations, lock, feed, handler, requests, worker, handled, database,
          service>>
\* the persistence worker, the database and the service
svars == <<worker, handled, database, service>>

\* no event in the worker's hands
NoEvent == [kind |-> None, payload |-> None]
\* the None that PersistenceManager.stop puts on the queue
Sentinel == [kind |-> "sentinel", payload |-> None]

\* no call of set_symbol or set_exchange_enabled has been made
NoCall == [op |-> None, symbol |-> None, exchange |-> None, enabled |-> FALSE,
           previous |-> None, to_stop |-> {}, done |-> FALSE]

\* ArbitrageService.__init__: the engine, the persistence manager and the
\* database are built, no task runs yet; the wallets and the rows of the
\* database are those given
ConstructedWith(configs, wallets, trade_rows) ==
    /\ config \in configs
    /\ fees = FeesOf
    /\ order_books = [s \in Symbols |-> [keys |-> <<>>, book |-> <<>>]]
    /\ inventory_by_exchange = wallets
    /\ total_pnl_usd = 0
    /\ balance_usd = config.starting_balance_usd
    /\ opportunities = <<>>
    /\ executed_trades = <<>>
    /\ metrics_log = <<>>
    /\ simulation_volume_usd = NoVolume
    /\ queue = <<>>
    /\ evaluations = <<>>
    /\ lock = [holder |-> None, waiters |-> <<>>]
    /\ feed = [v \in Venues |-> [symbol |-> config.symbol,
                                 pc |-> "unstarted", book |-> NoBook, produced |-> 0,
                                 applied |-> 0, delivered |-> <<>>,
                                 running |-> FALSE, tasks |-> 0, stop |-> "none",
                                 reference_price |-> 0, connected |-> FALSE,
                                 url |-> 1, delay |-> 0, failures |-> 0,
                                 silent_for |-> 0]]
    /\ handler = [h \in Handlers |-> [pc |-> "idle", request |-> NoRequest]]
    /\ requests = 0
    /\ worker = [task |-> None, pc |-> "unstarted", event |-> NoEvent]
    /\ handled = <<>>
    /\ database = [open |-> TRUE, opportunities |-> <<>>, trades |-> trade_rows]
    /\ service = [pc |-> "created", started |-> FALSE, before_sentinel |-> <<>>,
                  feeds |-> {}, call |-> NoCall]

\* the service constructed with one of the configurations of Configs
Constructed(wallets, trade_rows) == ConstructedWith(Configs, wallets, trade_rows)

\* a first run: the wallets of _build_initial_inventory and an empty database
Init ==
    Constructed(build_initial_inventory(Venues, {split_symbol_pair(s)[1] : s \in Symbols}),
                <<>>)

\* the engine's fields after the operators have computed e
SetEng(e) ==
    /\ config' = e.config
    /\ fees' = e.fees
    /\ order_books' = e.order_books
    /\ inventory_by_exchange' = e.inventory_by_exchange
    /\ total_pnl_usd' = e.total_pnl_usd
    /\ balance_usd' = e.balance_usd
    /\ opportunities' = e.opportunities
    /\ executed_trades' = e.executed_trades
    /\ metrics_log' = e.metrics_log
    /\ simulation_volume_usd' = e.simulation_volume_usd
    /\ queue' = e.queue
    /\ evaluations' = e.evaluations

TotalProduced == feed["a"].produced + feed["b"].produced + feed["c"].produced

\* ------------------------------------------------------------- the feeds
\* the book an adapter builds from message number k (market_data.py)
NormalizedOrderBook(v, symbol, shape, k) ==
    [exchange |-> v, symbol |-> symbol, bids |-> Shapes[shape].bids,
     asks |-> Shapes[shape].asks, exchange_timestamp |-> k]

\* an adapter that reads on while a callback is waiting for the lock
feed_reads_ahead(f) == f.pc \in {"read", "wait"}

\* whether the adapter's loop is at its read: it awaits the callback of one
\* book before it reads the next
feed_may_read(f) == f.pc = "read"

\* `async with self._lock` of an engine operation lets the caller in
may_enter(l, t) == l.holder = t

\* a feed reads its next message, builds the book and calls on_order_book,
\* which takes the lock and stores the book, or waits for the lock
FeedDeliver(v, max_books) ==
    /\ feed_may_read(feed[v])
    /\ TotalProduced < max_books
    /\ \E shape \in ShapesOf(v) :
         LET book == NormalizedOrderBook(v, feed[v].symbol, shape, feed[v].produced + 1)
             l == lock_acquire(lock, v)
         IN  /\ lock' = l
             /\ IF may_enter(l, v)
                THEN /\ SetEng(store_book(Eng, book))
                     /\ feed' = [feed EXCEPT
                            ![v].pc = "eval", ![v].book = book,
                            ![v].produced = @ + 1, ![v].applied = @ + 1,
                            ![v].delivered = Append(@, book)]
                ELSE /\ UNCHANGED evars
                     /\ feed' = [feed EXCEPT
                            ![v].pc = "wait", ![v].book = book,
                            ![v].produced = @ + 1,
                            ![v].delivered = Append(@, book)]
    /\ UNCHANGED <<handler, requests, svars>>

\* a waiting on_order_book call is given the lock and stores its book
FeedResume(v) ==
    /\ feed[v].pc = "wait"
    /\ may_enter(lock, v)
    /\ SetEng(store_book(Eng, feed[v].book))
    /\ feed' = [feed EXCEPT ![v].pc = "eval", ![v].applied = @ + 1]
    /\ UNCHANGED <<lock, handler, requests, svars>>

\* _evaluate_all_pairs runs to its end, on_order_book leaves the lock and
\* returns to the adapter
FeedEvaluate(v) ==
    /\ feed[v].pc = "eval"
    /\ SetEng(evaluate_all_pairs(Eng, feed[v].book.symbol, v))
    /\ lock' = lock_release(lock)
    /\ feed' = [feed EXCEPT ![v].pc = "read", ![v].book = NoBook]
    /\ UNCHANGED <<handler, requests, svars>>

\* no coroutine is in the middle of a stretch that has no suspension point
AtSuspension == \A v \in Venues : feed[v].pc # "eval"

\* the facade's set-simulation-volume request: set_simulation_volume_usd is
\* synchronous and takes no lock
SetSimulationVolume ==
    /\ service.pc = "running"
    /\ AtSuspension
    /\ requests < MaxRequests
    /\ \E value \in Volumes \cup {0} :
         LET next == IF value <= 0 THEN NoVolume ELSE value
         IN  /\ next # simulation_volume_usd
             /\ simulation_volume_usd' = next
    /\ requests' = requests + 1
    /\ UNCHANGED <<config, fees, order_books, inventory_by_exchange, total_pnl_usd,
                   balance_usd, opportunities, executed_trades, metrics_log, queue,
                   evaluations, lock, feed, handler, svars>>

\* ------------------------------------------------- the persistence worker
\* the columns of OpportunityRecord and of TradeRecord (db.py)
OpportunityColumns ==
    {"id", "timestamp", "status", "reason", "symbol", "buy_exchange", "sell_exchange",
     "trade_size", "gross_spread_pct", "net_spread_pct", "expected_profit_usd",
     "latency_ms", "buy_vwap", "sell_vwap"}
TradeColumns ==
    {"id", "timestamp", "symbol", "buy_exchange", "sell_exchange", "size", "pnl_usd",
     "latency_ms"}

\* Record(**asdict(item)): the declarative constructor raises TypeError for a
\* keyword that is no attribute of the record class
from_model(columns, item) ==
    IF DOMAIN item \subseteq columns
    THEN [raised |-> FALSE, row |-> item]
    ELSE [raised |-> TRUE, row |-> item]

\* Database.insert_opportunity: [raised, db]
insert_opportunity(db, item) ==
    LET r == from_model(OpportunityColumns, item)
    IN  IF r.raised THEN [raised |-> TRUE, db |-> db]
        ELSE [raised |-> FALSE,
              db |-> [db EXCEPT !.opportunities = Append(@, r.row)]]

\* Database.insert_trade: [raised, db]
insert_trade(db, item) ==
    LET r == from_model(TradeColumns, item)
    IN  IF r.raised THEN [raised |-> TRUE, db |-> db]
        ELSE [raised |-> FALSE, db |-> [db EXCEPT !.trades = Append(@, r.row)]]

\* asyncio.Queue.put: whether the caller gets past it without waiting
may_put(q) == Len(q) < QUEUE_MAXSIZE

\* a stop that does not wait for the worker
task_done_unawaited(w) == TRUE

\* `await self._task`: whether the awaited worker task is done
task_done(w) == w.pc = "ended"

\* _run: `event = await self._queue.get()`, and the return on the sentinel
WorkerGet ==
    /\ AtSuspension
    /\ worker.pc = "get"
    /\ queue # <<>>
    /\ queue' = Tail(queue)
    /\ worker' = IF Head(queue).kind = "sentinel"
                 THEN [worker EXCEPT !.pc = "ended"]
                 ELSE [worker EXCEPT !.pc = "insert", !.event = Head(queue)]
    /\ UNCHANGED <<config, fees, order_books, inventory_by_exchange, total_pnl_usd,
                   balance_usd, opportunities, executed_trades, metrics_log,
                   simulation_volume_usd, evaluations, lock, feed, handler, requests,
                   handled, database, service>>

\* a worker whose task ends with the exception of an insert
after_insert_uncaught(w, raised) ==
    IF raised THEN [w EXCEPT !.pc = "ended", !.event = NoEvent]
    ELSE [w EXCEPT !.pc = "get", !.event = NoEvent]

\* _run after the insert: `except Exception` logs, `finally` calls task_done,
\* and the loop goes back to its get with nothing in hand
after_insert(w, raised) ==
    [w EXCEPT !.pc = "get", !.event = NoEvent]

\* _run: the insert of the event taken, its exception caught and logged
WorkerInsert ==
    /\ AtSuspension
    /\ worker.pc = "insert"
    /\ LET r == IF worker.event.kind = "opportunity"
                THEN insert_opportunity(database, worker.event.payload)
                ELSE IF worker.event.kind = "trade"
                THEN insert_trade(database, worker.event.payload)
                ELSE [raised |-> FALSE, db |-> database]
       IN  /\ database' = r.db
           /\ handled' = Append(handled, [event |-> worker.event, written |-> ~r.raised])
    /\ worker' = after_insert(worker, ~handled'[Len(handled')].written)
    /\ UNCHANGED <<evars, lock, feed, handler, requests, service>>

\* ----------------------------------------------------------- the handlers
\* the requests the facade makes
Limits == 0..MaxLimit
SymbolFilters == {{}, {"ETHUSDT"}, {"BTCUSDT"}}
Requests ==
    {Request("snapshot", 0, {}, NoVolume), Request("rebalance_quotes", 0, {}, NoVolume)}
    \cup {Request("spread_series", limit, {}, NoVolume) : limit \in Limits}
    \cup {Request("list_trades", limit, symbols, NoVolume) :
             limit \in Limits, symbols \in SymbolFilters}
    \cup {Request("list_opportunities", limit, symbols, volume) :
             limit \in Limits, symbols \in SymbolFilters, volume \in Volumes \cup {NoVolume}}

\* the locked operation of request q, up to its return or its await of the store
engine_operation(e, q) ==
    CASE q.op = "snapshot" -> snapshot(e)
      [] q.op = "spread_series" -> spread_series(e, q.limit)
      [] q.op = "list_trades" -> list_trades(e, q.limit, q.symbols)
      [] q.op = "list_opportunities" ->
            list_opportunities(e, q.limit, q.symbols, q.volume)
      [] q.op = "rebalance_quotes" ->
            Answer(rebalance_quotes(e).e, TRUE,
                   [transfers |-> rebalance_quotes(e).transfers,
                    moved_quote_usd |-> rebalance_quotes(e).moved_quote_usd,
                    target_quote_usd |-> rebalance_quotes(e).target_quote_usd])

\* OpportunityRecord.to_model / TradeRecord.to_model: the model of a row
to_model(columns, row) == [f \in (columns \ {"id"}) \cap DOMAIN row |-> row[f]]

\* Database.list_opportunities / list_trades: the rows of the filter latest by
\* timestamp, at most max(1, min(limit, 5000)) of them, oldest first
store_rows(rows, limit, symbols) ==
    slice_last(symbol_filter(rows, symbols), Max(1, Min(limit, STORE_LIMIT_CAP)))

\* the listing of the store that request q is delegated to
store_list(db, q) ==
    IF q.op = "list_opportunities"
    THEN [i \in 1..Len(store_rows(db.opportunities, q.limit, q.symbols)) |->
             to_model(OpportunityColumns,
                      store_rows(db.opportunities, q.limit, q.symbols)[i])]
    ELSE [i \in 1..Len(store_rows(db.trades, q.limit, q.symbols)) |->
             to_model(TradeColumns, store_rows(db.trades, q.limit, q.symbols)[i])]

\* `try: return await list_fn(...) except Exception: return []`
store_answer(db, q, raised) == IF raised THEN <<>> ELSE store_list(db, q)

\* a request handler calls one of the engine's locked operations, which takes
\* the lock or waits for it; every one of them begins with `async with
\* self._lock`, so which one it is shows only once it is inside
HandlerCall(h) ==
    /\ service.pc = "running"
    /\ handler[h].pc = "idle"
    /\ requests < MaxRequests
    /\ handler' = [handler EXCEPT ![h].pc = "called"]
    /\ lock' = lock_acquire(lock, h)
    /\ requests' = requests + 1
    /\ UNCHANGED <<evars, feed, svars>>

\* the operation runs inside the lock: it returns and leaves the lock, or it
\* goes on to await the store's listing with the lock still held
HandlerRun(h) ==
    /\ handler[h].pc = "called"
    /\ may_enter(lock, h)
    /\ \E q \in Requests :
         /\ SetEng(engine_operation(Eng, q).e)
         /\ IF engine_operation(Eng, q).returned
            THEN /\ handler' = [handler EXCEPT ![h].pc = "idle"]
                 /\ lock' = lock_release(lock)
            ELSE /\ handler' = [handler EXCEPT ![h].pc = "store", ![h].request = q]
                 /\ UNCHANGED lock
    /\ UNCHANGED <<feed, requests, svars>>

\* a fallback that lets the store's exception out of the call
store_raises_through(raised) == raised

\* `except Exception: return []`: whether the call raises when the store did
store_raises(raised) == FALSE

\* the store's listing returns or raises; the operation returns
\* store_answer(database, request, raised) and leaves the lock
HandlerStoreReturn(h) ==
    /\ handler[h].pc = "store"
    /\ \E raised \in BOOLEAN :
         handler' = [handler EXCEPT
                        ![h] = [pc |-> IF store_raises(raised) THEN "raised" ELSE "idle",
                                request |-> NoRequest]]
    /\ lock' = lock_release(lock)
    /\ UNCHANGED <<evars, feed, requests, svars>>

\* ------------------------------------------------------------ the service
\* a cancellation that takes the tasks of T out of the waiters and leaves the
\* lock with the one it was handed to
lock_cancel_waiters_only(l, T) ==
    [holder |-> l.holder, waiters |-> SelectSeq(l.waiters, LAMBDA t : t \notin T)]

\* the lock after the tasks of T were cancelled: a cancelled waiter leaves the
\* queue of waiters, and a lock that was handed to one goes on to the next
lock_cancel(l, T) ==
    LET waiters == SelectSeq(l.waiters, LAMBDA t : t \notin T)
    IN  IF l.holder \in T THEN lock_release([holder |-> None, waiters |-> waiters])
        ELSE [holder |-> l.holder, waiters |-> waiters]

\* ------------------------------------------------------------ the adapters
\* self._task and not self._task.done()
task_running(f) == f.tasks > 0

\* a start that creates its task whether one runs or not
start_unguarded(f) ==
    [f EXCEPT !.running = TRUE, !.tasks = @ + 1, !.pc = "read", !.book = NoBook,
              !.stop = "none"]

\* MarketDataFeed.start: no second task while one runs
start(f) ==
    IF task_running(f) THEN f
    ELSE [f EXCEPT !.running = TRUE, !.tasks = @ + 1, !.pc = "read", !.book = NoBook,
                   !.stop = "none"]

\* MarketDataFeed.stop up to its await: the flag is cleared and the task, if
\* there is one that has not ended, is cancelled where it is suspended; the
\* await of a task that has ended returns at once
stop(f) ==
    IF task_running(f)
    THEN [f EXCEPT !.running = FALSE, !.pc = "cancelling", !.book = NoBook,
                   !.stop = "awaiting"]
    ELSE [f EXCEPT !.running = FALSE, !.stop = "returned"]

\* the cancelled task has run to its end
task_ended(f) == [f EXCEPT !.pc = "cancelled", !.tasks = @ - 1]

\* the adapter after stop() has returned
stopped(f) == IF task_running(f) THEN [task_ended(stop(f)) EXCEPT !.stop = "returned"]
              ELSE stop(f)

\* _build_feeds: one adapter per enabled feed, bound to config.symbol
build_feeds(c) == [v \in c.enabled |-> c.symbol]

\* the adapters of `built`, new and started, in place of those of the venues'
\* earlier adapters, whose tasks have ended
started_feeds(feeds, built) ==
    [v \in Venues |->
        IF v \in DOMAIN built
        THEN start([feeds[v] EXCEPT !.symbol = built[v], !.pc = "unstarted",
                                    !.running = FALSE, !.stop = "none"])
        ELSE feeds[v]]

\* ArbitrageService.start: the worker task is created and the feeds are started
ServiceStart ==
    /\ service.pc = "created"
    /\ ~service.started
    /\ worker' = IF worker.task = None
                 THEN [worker EXCEPT !.task = "persistence-worker", !.pc = "get"]
                 ELSE worker
    /\ feed' = started_feeds(feed, build_feeds(config))
    /\ service' = [service EXCEPT !.pc = "running", !.started = TRUE,
                                  !.feeds = DOMAIN build_feeds(config)]
    /\ UNCHANGED <<evars, lock, handler, requests, handled, database>>

\* ArbitrageService.stop up to the end of _stop_feeds: every feed task is
\* cancelled where it is suspended
StopFeeds ==
    /\ service.pc = "running"
    /\ service.started
    /\ AtSuspension
    /\ feed' = [v \in Venues |-> IF v \in service.feeds THEN stopped(feed[v]) ELSE feed[v]]
    /\ lock' = lock_cancel(lock, service.feeds)
    /\ service' = [service EXCEPT !.pc = "feeds_stopped", !.feeds = {}]
    /\ UNCHANGED <<evars, handler, requests, worker, handled, database>>

\* the events on their way to the database: the one in the worker's hands and
\* the ones queued
in_flight ==
    (IF worker.pc = "insert" THEN <<worker.event>> ELSE <<>>) \o queue

\* PersistenceManager.stop up to `await self._queue.put(None)`, which waits
\* while the queue is full
StopPutSentinel ==
    /\ service.pc = "feeds_stopped"
    /\ IF worker.task = None
       THEN /\ service' = [service EXCEPT !.pc = "persistence_stopped"]
            /\ UNCHANGED queue
       ELSE /\ may_put(queue)
            /\ queue' = Append(queue, Sentinel)
            /\ service' = [service EXCEPT
                   !.pc = "sentinel_put",
                   !.before_sentinel =
                       [i \in 1..Len(handled) |-> handled[i].event] \o in_flight]
    /\ UNCHANGED <<config, fees, order_books, inventory_by_exchange, total_pnl_usd,
                   balance_usd, opportunities, executed_trades, metrics_log,
                   simulation_volume_usd, evaluations, lock, feed, handler, requests,
                   worker, handled, database>>

\* PersistenceManager.stop from `await self._task` to its return
StopJoin ==
    /\ service.pc = "sentinel_put"
    /\ task_done(worker)
    /\ worker' = [worker EXCEPT !.task = None]
    /\ service' = [service EXCEPT !.pc = "persistence_stopped"]
    /\ UNCHANGED <<evars, lock, feed, handler, requests, handled, database>>

\* ArbitrageService.stop: `await self.db.close()` and the end of stop
StopClose ==
    /\ service.pc = "persistence_stopped"
    /\ database' = [database EXCEPT !.open = FALSE]
    /\ service' = [service EXCEPT !.pc = "stopped", !.started = FALSE]
    /\ UNCHANGED <<evars, lock, feed, handler, requests, worker, handled>>

\* the trading side: the feeds on a started service
Next ==
    \/ ServiceStart
    \/ \E v \in Venues : FeedDeliver(v, MaxBooks)
    \/ \E v \in Venues : FeedResume(v)
    \/ \E v \in Venues : FeedEvaluate(v)
    \/ SetSimulationVolume

Spec == Init /\ [][Next]_vars

\* the facade's side: requests run against the engine while the feeds deliver
QueryNext ==
    \/ ServiceStart
    \/ \E v \in Venues : FeedDeliver(v, MaxQueryBooks)
    \/ \E v \in Venues : FeedResume(v)
    \/ \E v \in Venues : FeedEvaluate(v)
    \/ \E h \in Handlers : HandlerCall(h)
    \/ \E h \in Handlers : HandlerRun(h)
    \/ \E h \in Handlers : HandlerStoreReturn(h)
    \/ SetSimulationVolume

QuerySpec == Init /\ [][QueryNext]_vars

\* what a step of FeedEvaluate(v) does to the adapter: only that action takes
\* an adapter out of its evaluation, and it can always do so
FeedReturns(v) ==
    /\ feed[v].pc = "eval"
    /\ feed' = [feed EXCEPT ![v].pc = "read", ![v].book = NoBook]

\* what a step of HandlerRun(h) does to the request: only that action takes a
\* request that was handed the lock out of its wait
HandlerEnters(h) ==
    /\ handler[h].pc = "called"
    /\ may_enter(lock, h)
    /\ \E pc \in {"idle", "store"}, q \in Requests \cup {NoRequest} :
         handler' = [handler EXCEPT ![h] = [pc |-> pc, request |-> q]]

\* the event loop runs every task that is ready: a call that has been handed
\* the lock goes on, an evaluation runs to its end, and an operation that
\* holds the lock returns; that the store's listing returns or raises is
\* assumed of the store.  The fairness of FeedEvaluate and of HandlerRun is
\* stated on the variable the step is seen on, which spares the evaluation
\* of the engine in ENABLED
QueryLiveSpec ==
    /\ QuerySpec
    /\ \A v \in Venues : WF_vars(FeedResume(v)) /\ WF_feed(FeedReturns(v))
    /\ \A h \in Handlers : WF_handler(HandlerEnters(h)) /\ WF_vars(HandlerStoreReturn(h))

\* the service from start to stop: the feeds, the worker and the shutdown
ServiceNext ==
    \/ ServiceStart
    \/ \E v \in Venues : FeedDeliver(v, MaxServiceBooks)
    \/ \E v \in Venues : FeedResume(v)
    \/ \E v \in Venues : FeedEvaluate(v)
    \/ WorkerGet
    \/ WorkerInsert
    \/ StopFeeds
    \/ StopPutSentinel
    \/ StopJoin
    \/ StopClose

\* a step of the worker task or of the stopping service
ShutdownStep == WorkerGet \/ WorkerInsert \/ StopPutSentinel \/ StopJoin \/ StopClose

\* the event loop runs the tasks that are ready: while the worker or stop() can
\* take a step, one of them does
ServiceSpec ==
    /\ Init
    /\ [][ServiceNext]_vars
    /\ WF_vars(ShutdownStep)

\* ------------------------------------------------- the adapters on their own
\* a caller starts adapter v
AdapterStart(v) ==
    /\ AtSuspension
    /\ feed[v].stop # "awaiting"
    /\ feed' = [feed EXCEPT ![v] = start(@)]
    /\ UNCHANGED <<evars, lock, handler, requests, svars>>

\* a caller stops adapter v: stop() runs up to its await; a task that waits
\* for the lock leaves the queue of waiters
AdapterStop(v) ==
    /\ AtSuspension
    /\ feed[v].stop # "awaiting"
    /\ feed' = [feed EXCEPT ![v] = stop(@)]
    /\ lock' = IF task_running(feed[v]) THEN lock_cancel(lock, {v}) ELSE lock
    /\ UNCHANGED <<evars, handler, requests, svars>>

\* the cancelled task gets CancelledError at its await and ends
TaskEnds(v) ==
    /\ AtSuspension
    /\ feed[v].pc = "cancelling"
    /\ feed' = [feed EXCEPT ![v] = task_ended(@)]
    /\ UNCHANGED <<evars, lock, handler, requests, svars>>

\* await self._task returns in stop()
AdapterStopReturn(v) ==
    /\ AtSuspension
    /\ feed[v].stop = "awaiting"
    /\ ~task_running(feed[v])
    /\ feed' = [feed EXCEPT ![v].stop = "returned"]
    /\ UNCHANGED <<evars, lock, handler, requests, svars>>

\* a run loop whose failure escapes: the task ends with the exception
on_exception_uncaught(f) == [f EXCEPT !.pc = "failed", !.tasks = @ - 1]

\* except Exception in the run loop: the task goes on, to its sleep or to the
\* next url
on_exception(f) == [f EXCEPT !.pc = "retry"]

\* a connect, read, fetch or parse failure in the run loop: except Exception
\* takes it, and the loop sleeps or goes to the next url
FeedFail(v) ==
    /\ feed_may_read(feed[v])
    /\ feed' = [feed EXCEPT ![v] = on_exception(@)]
    /\ UNCHANGED <<evars, lock, handler, requests, svars>>

\* the sleep is over, while self._running holds: the loop tries again
FeedRetry(v) ==
    /\ feed[v].pc = "retry"
    /\ feed[v].running
    /\ feed' = [feed EXCEPT ![v].pc = "read"]
    /\ UNCHANGED <<evars, lock, handler, requests, svars>>

AdapterNext ==
    \/ \E v \in Venues : AdapterStart(v)
    \/ \E v \in Venues : FeedDeliver(v, MaxAdapterBooks)
    \/ \E v \in Venues : FeedResume(v)
    \/ \E v \in Venues : FeedEvaluate(v)
    \/ \E v \in Venues : FeedFail(v)
    \/ \E v \in Venues : FeedRetry(v)
    \/ \E v \in Venues : AdapterStop(v)
    \/ \E v \in Venues : TaskEnds(v)
    \/ \E v \in Venues : AdapterStopReturn(v)

AdapterSpec == Init /\ [][AdapterNext]_vars

\* adapters that deliver and are stopped and started again, without failures
CancelNext ==
    \/ \E v \in Venues : AdapterStart(v)
    \/ \E v \in Venues : FeedDeliver(v, MaxCancelBooks)
    \/ \E v \in Venues : FeedResume(v)
    \/ \E v \in Venues : FeedEvaluate(v)
    \/ \E v \in Venues : AdapterStop(v)
    \/ \E v \in Venues : TaskEnds(v)
    \/ \E v \in Venues : AdapterStopReturn(v)

\* a first run with simulated executions on
CancelInit ==
    ConstructedWith({c \in Configs : c.auto_simulate_execution /\ c.trade_size = 1},
                    build_initial_inventory(Venues,
                                            {split_symbol_pair(s)[1] : s \in Symbols}),
                    <<>>)

CancelSpec == CancelInit /\ [][CancelNext]_vars

\* the run loops of adapters that are started and not stopped
AdapterLiveNext ==
    \/ \E v \in Venues : AdapterStart(v)
    \/ \E v \in Venues : FeedDeliver(v, MaxRetryBooks)
    \/ \E v \in Venues : FeedResume(v)
    \/ \E v \in Venues : FeedEvaluate(v)
    \/ \E v \in Venues : FeedFail(v)
    \/ \E v \in Venues : FeedRetry(v)

\* the event loop wakes a task whose sleep is over
AdapterLiveSpec ==
    /\ Init
    /\ [][AdapterLiveNext]_vars
    /\ \A v \in Venues : WF_vars(FeedRetry(v))

\* ------------------------------------------------- rebalance on its own
\* an amount of cents in money ticks
Cents(c) == c * ExactDiv(MoneyScale, 100)

\* the quote balances the wallets of a run start with, USD in cents
QuoteBalances == {0, 100000, 199998, 200000, 200001, 500000}

\* the wallets of the venues of keys holding the balances of cents
wallets_of(keys, cents) ==
    [x \in {keys[i] : i \in 1..Len(keys)} |->
        [build_initial_inventory({x}, {split_symbol_pair(s)[1] : s \in Symbols})[x]
            EXCEPT !.quote_balance =
                Cents(cents[CHOOSE i \in 1..Len(keys) : keys[i] = x])]]

\* four wallets holding 5000, 1000, 1000 and 1000 USD
FourWallets == wallets_of(VenueOrder, <<500000, 100000, 100000, 100000>>)

\* two or three wallets of any of the balances, and the four wallets
WalletConfigs ==
    {wallets_of(SubSeq(VenueOrder, 1, 2), c) : c \in [1..2 -> QuoteBalances]}
    \cup {wallets_of(SubSeq(VenueOrder, 1, 3), c) : c \in [1..3 -> QuoteBalances]}
    \cup {FourWallets}

\* an engine whose wallets hold what trading has left them, no task running
RebalanceInit == \E wallets \in WalletConfigs : Constructed(wallets, <<>>)

\* rebalance_quotes is called and runs inside the lock, which nothing else
\* asks for; the request served is kept
Rebalance(h) ==
    /\ handler[h].pc = "idle"
    /\ lock_free(lock)
    /\ requests < MaxRequests
    /\ SetEng(rebalance_quotes(Eng).e)
    /\ handler' = [handler EXCEPT
                      ![h].request = Request("rebalance_quotes", 0, {}, NoVolume)]
    /\ requests' = requests + 1
    /\ UNCHANGED <<lock, feed, svars>>

RebalanceNext == \E h \in Handlers : Rebalance(h)

RebalanceSpec == RebalanceInit /\ [][RebalanceNext]_vars

\* an engine with any number of wallets: none (no feed enabled), one, or those
\* of WalletConfigs
AnyWallets ==
    {wallets_of(<<>>, <<>>)}
    \cup {wallets_of(SubSeq(VenueOrder, 1, 1), c) : c \in [1..1 -> QuoteBalances]}
    \cup WalletConfigs

AnyWalletsInit == \E wallets \in AnyWallets : Constructed(wallets, <<>>)

AnyWalletsSpec == AnyWalletsInit /\ [][RebalanceNext]_vars

\* ------------------------------------------------- the store fallback
\* a trade a previous run of the service wrote to the database
StoredTrade ==
    [symbol |-> "ETHUSDT", buy_exchange |-> "a", sell_exchange |-> "b", size |-> 1,
     pnl_usd |-> MoneyScale]

\* a run on a database that is empty or holds a trade of a previous run
StoreInit ==
    \E trade_rows \in {<<>>, <<StoredTrade>>} :
        Constructed(build_initial_inventory(Venues,
                                            {split_symbol_pair(s)[1] : s \in Symbols}),
                    trade_rows)

\* the requests of the facade before any feed has delivered
StoreNext ==
    \/ ServiceStart
    \/ \E h \in Handlers : HandlerCall(h)
    \/ \E h \in Handlers : HandlerRun(h)
    \/ \E h \in Handlers : HandlerStoreReturn(h)

StoreSpec == StoreInit /\ [][StoreNext]_vars

\* ------------------------------------------- the service is reconfigured
\* the symbols set_symbol is called with
SymbolChoices == {"ETHUSDT", "ETHUSDC"}

\* a start of set_symbol that leaves the configured symbol as it was
set_config_symbol_forgotten(c, next_symbol) == c

\* self.config.symbol = next_symbol  (service.py line 72)
set_config_symbol(c, next_symbol) == [c EXCEPT !.symbol = next_symbol]

\* feed_cfg.enabled = enabled of the feed named target  (lines 84-87)
set_feed_enabled(c, target, enabled) ==
    [c EXCEPT !.enabled = IF enabled THEN @ \cup {target} ELSE @ \ {target}]

\* ArbitrageEngine.set_symbol: the books of every other symbol are cleared;
\* the wallets stay
engine_set_symbol(e, symbol) ==
    [e EXCEPT !.order_books =
        [s \in DOMAIN @ |-> IF s = symbol THEN @[s] ELSE NoBooks]]

\* the dict of a symbol's books without the key exchange
without_exchange(books, exchange) ==
    [keys |-> SelectSeq(books.keys, LAMBDA x : x # exchange),
     book |-> [x \in DOMAIN books.book \ {exchange} |-> books.book[x]]]

\* ArbitrageEngine.set_exchange_enabled: the cached books of a venue that is
\* disabled are dropped
engine_set_exchange_enabled(e, exchange, enabled) ==
    IF enabled THEN e
    ELSE [e EXCEPT !.order_books =
            [s \in DOMAIN @ |-> without_exchange(@[s], exchange)]]

\* set_symbol on a started service, up to the await of _stop_feeds: gather
\* has made one stop() task for each adapter of self.feeds  (lines 65-70)
SetSymbol(symbol) ==
    /\ service.pc = "running"
    /\ AtSuspension
    /\ requests < MaxCalls
    /\ symbol # config.symbol
    /\ service' = [service EXCEPT
           !.pc = "stop_feeds",
           !.call = [op |-> "set_symbol", symbol |-> symbol, exchange |-> None,
                     enabled |-> FALSE, previous |-> config.symbol,
                     to_stop |-> service.feeds, done |-> FALSE]]
    /\ requests' = requests + 1
    /\ UNCHANGED <<evars, lock, feed, handler, worker, handled, database>>

\* set_exchange_enabled on a started service, for a configured venue, up to
\* the await of _stop_feeds  (lines 80-94)
SetExchangeEnabled(exchange, enabled) ==
    /\ service.pc = "running"
    /\ AtSuspension
    /\ requests < MaxCalls
    /\ SetEng(engine_set_exchange_enabled(
                  [Eng EXCEPT !.config = set_feed_enabled(@, exchange, enabled)],
                  exchange, enabled))
    /\ service' = [service EXCEPT
           !.pc = "stop_feeds",
           !.call = [op |-> "set_exchange_enabled", symbol |-> None,
                     exchange |-> exchange, enabled |-> enabled,
                     previous |-> config.symbol,
                     to_stop |-> service.feeds, done |-> FALSE]]
    /\ requests' = requests + 1
    /\ UNCHANGED <<lock, feed, handler, worker, handled, database>>

\* one of the stop() tasks of _stop_feeds runs up to its await
StopTask(v) ==
    /\ service.pc = "stop_feeds"
    /\ v \in service.call.to_stop
    /\ AtSuspension
    /\ feed' = [feed EXCEPT ![v] = stop(@)]
    /\ lock' = IF task_running(feed[v]) THEN lock_cancel(lock, {v}) ELSE lock
    /\ service' = [service EXCEPT !.call.to_stop = @ \ {v}]
    /\ UNCHANGED <<evars, handler, requests, worker, handled, database>>

\* gather has every stop() returned
feeds_stopped ==
    /\ service.pc = "stop_feeds"
    /\ service.call.to_stop = {}
    /\ \A v \in service.feeds : feed[v].stop = "returned"

\* the call goes on after _stop_feeds: set_symbol sets the symbol in the
\* configuration and in the engine (lines 72-73); both calls build the
\* adapters anew and start them (lines 74-77, 95-96)
Restart ==
    /\ feeds_stopped
    /\ AtSuspension
    /\ LET e == IF service.call.op = "set_symbol"
                THEN engine_set_symbol(
                         [Eng EXCEPT !.config = set_config_symbol(@, service.call.symbol)],
                         service.call.symbol)
                ELSE Eng
       IN  /\ SetEng(e)
           /\ feed' = started_feeds(feed, build_feeds(e.config))
           /\ service' = [service EXCEPT !.pc = "running",
                                         !.feeds = DOMAIN build_feeds(e.config),
                                         !.call.done = TRUE]
    /\ UNCHANGED <<lock, handler, requests, worker, handled, database>>

\* a started service whose symbol and venues are changed while its feeds run
ReconfigureNext ==
    \/ ServiceStart
    \/ \E v \in Venues : FeedDeliver(v, MaxCallBooks)
    \/ \E v \in Venues : FeedResume(v)
    \/ \E v \in Venues : FeedEvaluate(v)
    \/ \E symbol \in SymbolChoices : SetSymbol(symbol)
    \/ \E v \in Venues, enabled \in BOOLEAN : SetExchangeEnabled(v, enabled)
    \/ \E v \in Venues : StopTask(v)
    \/ \E v \in Venues : TaskEnds(v)
    \/ \E v \in Venues : AdapterStopReturn(v)
    \/ Restart

\* the configuration of the runs that are reconfigured: executions are simulated
ReconfigureInit == Init /\ config = Config(1, TRUE, ExactDiv(MoneyScale, 100))

ReconfigureSpec == ReconfigureInit /\ [][ReconfigureNext]_vars

\* ------------------------------------------------ the engine on its own
\* the books of the scenarios: venue A asks 10 units at 100, venue B bids 10
\* units at 101, each with and without its other side
ScenarioShapes ==
    [AskOnly |-> [bids |-> <<>>, asks |-> <<Level(100, 10 * QtyScale)>>],
     BothA   |-> [bids |-> <<Level(99, 10 * QtyScale)>>,
                  asks |-> <<Level(100, 10 * QtyScale)>>],
     BidOnly |-> [bids |-> <<Level(101, 10 * QtyScale)>>, asks |-> <<>>],
     BothB   |-> [bids |-> <<Level(101, 10 * QtyScale)>>,
                  asks |-> <<Level(120, 10 * QtyScale)>>]]

ScenarioVenues == {"a", "b"}
ScenarioShapesOf(v) == IF v = "a" THEN {"AskOnly", "BothA"} ELSE {"BidOnly", "BothB"}

\* the configurations of the scenarios: trade_size 1.0 or 2.0, transfer cost
\* $0.10 or $1.00, threshold one cent, with and without simulated executions
ScenarioConfigs ==
    { [Config(size, auto, Cents(1)) EXCEPT !.transfer_cost_usd = Cents(cost)] :
        size \in {QtyScale, 2 * QtyScale}, auto \in BOOLEAN, cost \in {10, 100} }

\* the wallets of the scenarios: 2000 or 50 USDT and 10 units of the base asset
ScenarioWallets ==
    { [x \in Venues |-> [quote_asset |-> "USDT", quote_balance |-> Cents(usd * 100),
                         asset_balances |-> [asset \in {"ETH"} |-> 10 * QtyScale]]] :
        usd \in {2000, 50} }

\* the values set_simulation_volume_usd is called with; NoVolume stands for None
ScenarioVolumes == {1000, NoVolume, -1}

ScenarioInit ==
    \E wallets \in ScenarioWallets : ConstructedWith(ScenarioConfigs, wallets, <<>>)

\* on_order_book runs with a book of venue v, from its start to its end
OnOrderBook(v) ==
    /\ TotalProduced < MaxScenarioBooks
    /\ \E shape \in ScenarioShapesOf(v) :
         LET book == [exchange |-> v, symbol |-> config.symbol,
                      bids |-> ScenarioShapes[shape].bids,
                      asks |-> ScenarioShapes[shape].asks,
                      exchange_timestamp |-> feed[v].produced + 1]
         IN  /\ SetEng(on_order_book(Eng, book))
             /\ feed' = [feed EXCEPT ![v].produced = @ + 1, ![v].applied = @ + 1,
                                     ![v].delivered = Append(@, book)]
    /\ UNCHANGED <<lock, handler, requests, svars>>

\* set_simulation_volume_usd  (lines 179-183)
set_simulation_volume_usd(e, value) ==
    [e EXCEPT !.simulation_volume_usd = IF value <= 0 THEN NoVolume ELSE value]

\* a call of set_simulation_volume_usd; the caller keeps the value it gave
SetVolume(h, value) ==
    /\ requests < MaxVolumeCalls
    /\ SetEng(set_simulation_volume_usd(Eng, value))
    /\ handler' = [handler EXCEPT
           ![h].request = Request("set_simulation_volume_usd", 0, {}, value)]
    /\ requests' = requests + 1
    /\ UNCHANGED <<lock, feed, svars>>

ScenarioNext ==
    \/ \E v \in ScenarioVenues : OnOrderBook(v)
    \/ \E h \in Handlers, value \in ScenarioVolumes : SetVolume(h, value)

ScenarioSpec == ScenarioInit /\ [][ScenarioNext]_vars

\* ------------------------------------------------ the simulated adapter
\* SimulatedDepthFeed rounds its prices to cents (round(x, 2)) and its
\* quantities to 1e-5; in this section a price is a number of cents and a
\* quantity a number of 1e-5 units, and a random.uniform(lo, hi) is a choice
\* between the two ends of its range.
Uniform(lo, hi) == {lo, hi}

\* the feeds of kind "simulated" of the default configuration (config.py:40-57):
\* price_offset and volatility, in cents
SimulatedFeeds ==
    [b |-> [price_offset |-> 22000, volatility |-> 350],
     c |-> [price_offset |-> 0 - 22000, volatility |-> 300]]

\* SimulatedDepthFeed.__init__: self._reference_price = 50000 + price_offset
initial_reference_price(cfg) == 50000 * 100 + cfg.price_offset

\* self._reference_price = max(1000, self._reference_price + drift)
next_reference_price(reference_price, drift) == Max(1000 * 100, reference_price + drift)

\* the loop over range(depth_levels): level_index = i - 1 is `steps[i]` times
\* its index away from the best price, on the side `away` (-1 bids, +1 asks)
simulated_levels(best, away, steps, quantities) ==
    [i \in 1..DEPTH_LEVELS |-> Level(best + away * ((i - 1) * steps[i]), quantities[i])]

\* the book one turn of SimulatedDepthFeed._run_loop builds
simulated_book(v, symbol, reference_price, spread, steps, quantities, k) ==
    [exchange |-> v, symbol |-> symbol,
     bids |-> simulated_levels(reference_price - ExactDiv(spread, 2), 0 - 1, steps, quantities),
     asks |-> simulated_levels(reference_price + ExactDiv(spread, 2), 1, steps, quantities),
     exchange_timestamp |-> k]

\* _build_feeds makes the SimulatedDepthFeed of venue v and start() creates
\* its task
SimulatedStart(v) ==
    /\ ~task_running(feed[v])
    /\ feed' = [feed EXCEPT
           ![v] = [start(@) EXCEPT
                      !.reference_price = initial_reference_price(SimulatedFeeds[v])]]
    /\ UNCHANGED <<evars, lock, handler, requests, svars>>

\* one turn of SimulatedDepthFeed._run_loop: the drift, the spread, one step
\* and one quantity per level, the callback with the book, and the sleep.
\* What the callback does with the book is not part of this section: the
\* book is recorded as delivered.
SimulatedDeliver(v) ==
    /\ feed_may_read(feed[v])
    /\ TotalProduced < MaxSimulatedBooks
    /\ \E drift \in Uniform(0 - SimulatedFeeds[v].volatility, SimulatedFeeds[v].volatility),
          spread \in Uniform(100, 500),
          steps \in [1..DEPTH_LEVELS -> Uniform(20, 120)],
          quantities \in [1..DEPTH_LEVELS -> Uniform(2000, 60000)] :
         LET reference_price == next_reference_price(feed[v].reference_price, drift)
             book == simulated_book(v, feed[v].symbol, reference_price, Max(50, spread),
                                    steps, quantities, feed[v].produced + 1)
         IN  feed' = [feed EXCEPT
                 ![v].reference_price = reference_price,
                 ![v].produced = @ + 1,
                 ![v].delivered = Append(@, book)]
    /\ UNCHANGED <<evars, lock, handler, requests, svars>>

SimulatedNext ==
    \/ \E v \in DOMAIN SimulatedFeeds : SimulatedStart(v)
    \/ \E v \in DOMAIN SimulatedFeeds : SimulatedDeliver(v)

SimulatedSpec == Init /\ [][SimulatedNext]_vars

\* ------------------------------------------------ the streaming adapters
\* In this section time is counted in seconds.  An adapter's `connected` is
\* the flag of BinanceDepthFeed._run_loop, `url` the index of the url its
\* loop is at, `delay` the length of the sleep it is in, `silent_for` the
\* seconds its read has waited since the connection's last message, and
\* `failures` the number of sleeps since its last message (history).

\* a configuration with one feed of each streaming kind (service.py:27-38)
StreamKinds == [a |-> "binance_ws", b |-> "kraken_ws", c |-> "bybit_ws"]

\* the urls an adapter tries in one cycle: len(self.ws_urls), or the one ws_url
urls_of(kind) == IF kind = "binance_ws" THEN 3 ELSE 1

\* the sleep after an exception: BinanceDepthFeed sleeps 1.0 at the end of a
\* cycle in which no url connected and not at all otherwise (lines 144-145);
\* KrakenDepthFeed and BybitDepthFeed sleep 2.0 (lines 279, 339)
sleep_after(kind, connected) ==
    IF kind = "binance_ws" THEN (IF connected THEN 0 ELSE 1) ELSE 2

\* the run loop after an exception while it connects or reads at url number
\* `f.url`: the next url of the cycle, or the end of the cycle and its sleep
after_exception(f, kind) ==
    IF f.url < urls_of(kind)
    THEN [f EXCEPT !.pc = "connect", !.url = @ + 1]
    ELSE IF sleep_after(kind, f.connected) = 0
         THEN [f EXCEPT !.pc = "connect", !.url = 1, !.connected = FALSE]
         ELSE [f EXCEPT !.pc = "retry", !.delay = sleep_after(kind, f.connected),
                        !.failures = @ + 1]

\* _build_feeds makes the adapter of venue v and start() creates its task,
\* which begins a cycle
StreamStart(v) ==
    /\ ~task_running(feed[v])
    /\ feed' = [feed EXCEPT
           ![v] = [start(@) EXCEPT !.pc = "connect", !.url = 1, !.connected = FALSE]]
    /\ UNCHANGED <<evars, lock, handler, requests, svars>>

\* connect(...) succeeds (and the subscription is sent): the loop is at its
\* `async for message in websocket`
StreamConnect(v) ==
    /\ feed[v].pc = "connect"
    /\ feed' = [feed EXCEPT ![v].pc = "read", ![v].connected = TRUE,
                            ![v].silent_for = 0]
    /\ UNCHANGED <<evars, lock, handler, requests, svars>>

\* a message arrives and is handled; what the callback does with a book is
\* not part of this section
StreamRead(v) ==
    /\ feed[v].pc = "read"
    /\ TotalProduced < MaxStreamReads
    /\ feed' = [feed EXCEPT ![v].produced = @ + 1, ![v].silent_for = 0,
                            ![v].failures = 0]
    /\ UNCHANGED <<evars, lock, handler, requests, svars>>

\* five seconds pass in which the open connection brings no message: the
\* `async for` has no timeout and goes on waiting (the count stops once it
\* is past stale_timeout_sec)
StreamSilent(v) ==
    /\ feed[v].pc = "read"
    /\ feed[v].silent_for <= STALE_TIMEOUT_SEC
    /\ feed' = [feed EXCEPT ![v].silent_for = @ + 5]
    /\ UNCHANGED <<evars, lock, handler, requests, svars>>

\* connect, send or the read raises (refused, closed with an error, ping
\* timeout): except Exception
StreamFail(v) ==
    /\ feed[v].pc \in {"connect", "read"}
    /\ feed[v].failures < MaxFailures
    /\ feed' = [feed EXCEPT ![v] = after_exception(@, StreamKinds[v])]
    /\ UNCHANGED <<evars, lock, handler, requests, svars>>

\* the sleep is over, while self._running holds: the next cycle begins
StreamWake(v) ==
    /\ feed[v].pc = "retry"
    /\ feed[v].running
    /\ feed' = [feed EXCEPT ![v].pc = "connect", ![v].url = 1, ![v].connected = FALSE]
    /\ UNCHANGED <<evars, lock, handler, requests, svars>>

StreamNext ==
    \/ \E v \in Venues : StreamStart(v)
    \/ \E v \in Venues : StreamConnect(v)
    \/ \E v \in Venues : StreamRead(v)
    \/ \E v \in Venues : StreamSilent(v)
    \/ \E v \in Venues : StreamFail(v)
    \/ \E v \in Venues : StreamWake(v)

StreamSpec == Init /\ [][StreamNext]_vars

\* ------------------------------------------------ transfers on their own
\* the amounts a transfer is asked to move: of the quote asset in USD cents,
\* of a base asset in quantity ticks
QuoteAmounts == {0 - 1, 0, 100000, 200001}
BaseAmounts == {0, 1, 3}

\* two or three wallets holding 0, 1000 or 2000 USD each
TransferWallets ==
    {wallets_of(SubSeq(VenueOrder, 1, n), c) :
        n \in {2}, c \in [1..2 -> {0, 100000, 200000}]}
    \cup {wallets_of(SubSeq(VenueOrder, 1, 3), c) : c \in [1..3 -> {0, 100000, 200000}]}

TransferInit == \E wallets \in TransferWallets : Constructed(wallets, <<>>)

\* a call of _transfer_quote_between_exchanges
TransferQuote(from_exchange, to_exchange, amount) ==
    /\ requests < MaxTransfers
    /\ SetEng(transfer_quote_between_exchanges(Eng, from_exchange, to_exchange,
                                               Cents(amount)).e)
    /\ requests' = requests + 1
    /\ UNCHANGED <<lock, feed, handler, svars>>

\* a call of _transfer_base_between_exchanges
TransferBase(from_exchange, to_exchange, base_asset, amount) ==
    /\ requests < MaxTransfers
    /\ SetEng(transfer_base_between_exchanges(Eng, from_exchange, to_exchange,
                                              base_asset, amount).e)
    /\ requests' = requests + 1
    /\ UNCHANGED <<lock, feed, handler, svars>>

\* the venues a call may name: those of VenueOrder, with or without a wallet
TransferVenues == {VenueOrder[i] : i \in 1..Len(VenueOrder)}

TransferNext ==
    \/ \E x, y \in TransferVenues, amount \in QuoteAmounts :
          x # y /\ TransferQuote(x, y, amount)
    \/ \E x, y \in TransferVenues, amount \in BaseAmounts :
          x # y /\ TransferBase(x, y, "ETH", amount)

TransferSpec == TransferInit /\ [][TransferNext]_vars

\* ------------------------------------------------ listings of two symbols
\* the listing requests with a symbol filter and a limit of at least one
SymbolListings ==
    {Request(op, limit, {symbol}, NoVolume) :
        op \in {"list_opportunities", "list_trades"}, limit \in 1..MaxLimit,
        symbol \in SymbolChoices}

\* on_order_book runs with a book of venue v for one of two symbols, from its
\* start to its end: venue a asks at 100, venue b bids at 101
SymbolOnOrderBook(v, symbol) ==
    /\ TotalProduced < MaxListingBooks
    /\ LET shape == IF v = "a" THEN "BothA" ELSE "BothB"
           book == [exchange |-> v, symbol |-> symbol,
                    bids |-> ScenarioShapes[shape].bids,
                    asks |-> ScenarioShapes[shape].asks,
                    exchange_timestamp |-> feed[v].produced + 1]
       IN  /\ SetEng(on_order_book(Eng, book))
           /\ feed' = [feed EXCEPT ![v].produced = @ + 1, ![v].applied = @ + 1,
                                   ![v].delivered = Append(@, book)]
    /\ UNCHANGED <<lock, handler, requests, svars>>

\* a listing with a symbol filter runs inside the lock, up to its return or
\* its await of the store; the request served is kept
SymbolListing(h, q) ==
    /\ requests < MaxRequests
    /\ SetEng(engine_operation(Eng, q).e)
    /\ handler' = [handler EXCEPT ![h].request = q]
    /\ requests' = requests + 1
    /\ UNCHANGED <<lock, feed, svars>>

ListingInit ==
    \E wallets \in ScenarioWallets :
        ConstructedWith({c \in ScenarioConfigs : c.trade_size = QtyScale}, wallets, <<>>)

ListingNext ==
    \/ \E v \in ScenarioVenues, symbol \in SymbolChoices : SymbolOnOrderBook(v, symbol)
    \/ \E h \in Handlers, q \in SymbolListings : SymbolListing(h, q)

ListingSpec == ListingInit /\ [][ListingNext]_vars

\* ------------------------------------- trading on thin books, short wallets
\* books whose depth is one trade or two: venue a offers the asks, venues b
\* and c the bids
TradingShapes ==
    [OneAsk  |-> [bids |-> <<Level(90, QtyScale)>>,
                  asks |-> <<Level(100, QtyScale)>>],
     TwoAsks |-> [bids |-> <<Level(90, QtyScale)>>,
                  asks |-> <<Level(100, QtyScale), Level(100, QtyScale)>>],
     OneBid  |-> [bids |-> <<Level(110, QtyScale)>>,
                  asks |-> <<Level(130, QtyScale)>>],
     TwoBids |-> [bids |-> <<Level(110, QtyScale), Level(110, QtyScale)>>,
                  asks |-> <<Level(130, QtyScale)>>]]

TradingShapesOf(v) ==
    IF v = "a" THEN {"OneAsk", "TwoAsks"}
    ELSE IF v = "b" THEN {"OneBid", "TwoBids"}
    ELSE {"OneBid"}

\* a wallet of `cents` USDT and `units` of the base asset
Wallet(cents, units) ==
    [quote_asset |-> "USDT", quote_balance |-> Cents(cents),
     asset_balances |-> [asset \in {"ETH"} |-> units * QtyScale]]

\* the wallets of the runs: every venue rich; venue a holding the price of one
\* trade at 100 and its fee to the cent, venues b and c one unit of the base
\* asset; venue a short of quote; venue b without the base asset
TradingWallets ==
    { [x \in Venues |-> Wallet(200000, 10)],
      [x \in Venues |-> IF x = "a" THEN Wallet(10010, 0) ELSE Wallet(200000, 1)],
      [x \in Venues |-> IF x = "a" THEN Wallet(5000, 10) ELSE Wallet(200000, 10)],
      [x \in Venues |-> IF x = "b" THEN Wallet(200000, 0) ELSE Wallet(200000, 10)] }

\* trade_size 1.0, with and without simulated executions
TradingConfigs ==
    {c \in ScenarioConfigs : c.trade_size = QtyScale /\ c.transfer_cost_usd = Cents(100)}

TradingInit ==
    \E wallets \in TradingWallets : ConstructedWith(TradingConfigs, wallets, <<>>)

\* on_order_book runs with a book of venue v, from its start to its end
TradingOnOrderBook(v) ==
    /\ TotalProduced < MaxTradingBooks
    /\ \E shape \in TradingShapesOf(v) :
         LET book == [exchange |-> v, symbol |-> config.symbol,
                      bids |-> TradingShapes[shape].bids,
                      asks |-> TradingShapes[shape].asks,
                      exchange_timestamp |-> feed[v].produced + 1]
         IN  /\ SetEng(on_order_book(Eng, book))
             /\ feed' = [feed EXCEPT ![v].produced = @ + 1, ![v].applied = @ + 1,
                                     ![v].delivered = Append(@, book)]
    /\ UNCHANGED <<lock, handler, requests, svars>>

TradingNext ==
    \/ \E v \in Venues : TradingOnOrderBook(v)
    \/ \E h \in Handlers : Rebalance(h)

TradingSpec == TradingInit /\ [][TradingNext]_vars

\* ================================================================ properties
Records == {evaluations[i] : i \in 1..Len(evaluations)}
buy_book_of(r) == r.before.order_books[r.opportunity.symbol].book[r.opportunity.buy_exchange]
sell_book_of(r) == r.before.order_books[r.opportunity.symbol].book[r.opportunity.sell_exchange]

\* ---- C1
\* a feed that has stored its book and not yet finished evaluating holds the lock
C1_HoldsLock ==
    \A v \in Venues : feed[v].pc = "eval" =>
        /\ lock.holder = v
        /\ \A i \in 1..Len(lock.waiters) : lock.waiters[i] # v
\* a step taken while an on_order_book call stays between its store and the end
\* of its evaluation is a step of another task, and it leaves every field of
\* the engine as it was
C1_NoInterference ==
    \A v \in Venues :
        (feed[v].pc = "eval" /\ feed'[v].pc = "eval") => UNCHANGED evars
\* C1: each on_order_book call is atomic with respect to every other engine
\* operation: from the store of its book to the end of its evaluation the call
\* holds the lock, and no other on_order_book, snapshot, list_opportunities,
\* list_trades, spread_series or rebalance_quotes call runs on the engine's state
C1_OnOrderBookAtomic == []C1_HoldsLock /\ [][C1_NoInterference]_vars
\* a call is between store and evaluation while another feed and a request wait
C1_Witness ==
    \E v \in Venues :
        /\ feed[v].pc = "eval"
        /\ \E w \in Venues \ {v} : feed[w].pc = "wait"
        /\ \E h \in Handlers : handler[h].pc = "called" /\ lock.holder # h

\* ---- C2
\* the (status, reason) the order of precedence gives one evaluation
C2_Expected(r) ==
    LET o == r.opportunity
        size == o.trade_size
        buy_fill == compute_vwap_for_buy(buy_book_of(r).asks, size).filled
        sell_fill == compute_vwap_for_sell(sell_book_of(r).bids, size).filled
        buy_total == ExactDiv(ExactDiv(o.buy_vwap, FeeScale)
                                  * (FeeScale + fees[o.buy_exchange]) * size, QtyScale)
        quote == r.before.inventory_by_exchange[o.buy_exchange].quote_balance
        base == r.before.inventory_by_exchange[o.sell_exchange].asset_balances["ETH"]
    IN  IF size <= 0 THEN <<"discarded", "invalid_trade_size">>
        ELSE IF Min(buy_fill, sell_fill) < size
        THEN <<"insufficient_liquidity", "insufficient_depth">>
        ELSE IF buy_total > quote THEN <<"no_funds", "insufficient_quote_balance">>
        ELSE IF base < size THEN <<"no_funds", "insufficient_base_balance">>
        ELSE IF o.expected_profit_usd <= 0
        THEN <<"discarded", "fees_and_transfer_filtered">>
        ELSE <<"accepted", "profitable">>
\* C2: every evaluation of a directed pair returns the one (status, reason) the
\* order of precedence gives (size, depth, quote balance, base balance, profit,
\* accepted), and every accepted opportunity has expected_profit_usd > 0
C2_Precedence ==
    /\ \A r \in Records :
          <<r.opportunity.status, r.opportunity.reason>> = C2_Expected(r)
    /\ \A i \in 1..Len(opportunities) :
          opportunities[i].status = "accepted" => opportunities[i].expected_profit_usd > 0
\* one on_order_book call returned an accepted opportunity and one that lacks
\* funds and is unprofitable as well, where the precedence decides
C2_Witness ==
    /\ \E r \in Records : r.opportunity.status = "accepted"
    /\ \E r \in Records :
          /\ r.opportunity.status = "no_funds"
          /\ r.opportunity.expected_profit_usd <= 0

\* ---- C3
\* the opportunity is one the simulator is invoked for
Qualifies(o) ==
    /\ config.auto_simulate_execution
    /\ o.status = "accepted"
    /\ o.expected_profit_usd >= config.opportunity_threshold_usd
\* the trade of an opportunity
TradeOf(o) ==
    [symbol |-> o.symbol, buy_exchange |-> o.buy_exchange,
     sell_exchange |-> o.sell_exchange, size |-> o.trade_size,
     pnl_usd |-> o.expected_profit_usd]
\* C3: during on_order_book the wallets, the book depth, total_pnl_usd,
\* balance_usd and the trades ring change only for an accepted opportunity of
\* expected_profit_usd >= opportunity_threshold_usd while auto_simulate_execution
\* is on; a trade added to the ring is the trade of such an opportunity, and
\* every trade in the ring has a profit at or above the threshold
C3_ExecutionGated ==
    /\ \A r \in Records :
          /\ ~Qualifies(r.opportunity) =>
                /\ r.after.inventory_by_exchange = r.before.inventory_by_exchange
                /\ r.after.order_books = r.before.order_books
                /\ r.after.total_pnl_usd = r.before.total_pnl_usd
                /\ r.after.balance_usd = r.before.balance_usd
                /\ r.after.executed_trades = r.before.executed_trades
          /\ r.after.executed_trades # r.before.executed_trades =>
                /\ Qualifies(r.opportunity)
                /\ r.after.executed_trades[Len(r.after.executed_trades)]
                       = TradeOf(r.opportunity)
    /\ \A i \in 1..Len(executed_trades) :
          /\ config.auto_simulate_execution
          /\ executed_trades[i].pnl_usd >= config.opportunity_threshold_usd
          /\ executed_trades[i].pnl_usd > 0
\* one call executed an opportunity and left an accepted one below the
\* threshold unexecuted
C3_Witness ==
    /\ \E r \in Records : Qualifies(r.opportunity) /\ r.completed
    /\ \E r \in Records :
          /\ r.opportunity.status = "accepted"
          /\ ~Qualifies(r.opportunity)
          /\ ~r.simulated

\* ---- C4
RECURSIVE total_quantity(_)
total_quantity(levels) ==
    IF levels = <<>> THEN 0 ELSE Head(levels).quantity + total_quantity(Tail(levels))
\* buy_vwap * size * (1 + buy_fee)
BuyCost(o) ==
    ExactDiv(ExactDiv(o.buy_vwap, FeeScale) * (FeeScale + fees[o.buy_exchange])
                 * o.trade_size, QtyScale)
\* sell_vwap * size * (1 - sell_fee)
SellValue(o) ==
    ExactDiv(ExactDiv(o.sell_vwap, FeeScale) * (FeeScale - fees[o.sell_exchange])
                 * o.trade_size, QtyScale)
\* the queue after the opportunity of r was submitted
QueueAfterOpportunity(r) ==
    IF r.opportunity.status = "accepted" /\ Len(r.before.queue) < QUEUE_MAXSIZE
    THEN Append(r.before.queue, [kind |-> "opportunity", payload |-> r.opportunity])
    ELSE r.before.queue
\* the effect of one completed execution
C4_Frame(r) ==
    LET o == r.opportunity
        bx == o.buy_exchange
        sx == o.sell_exchange
        inv0 == r.before.inventory_by_exchange
        inv1 == r.after.inventory_by_exchange
        books0 == r.before.order_books[o.symbol].book
        books1 == r.after.order_books[o.symbol].book
    IN  /\ inv1[bx].quote_balance = inv0[bx].quote_balance - BuyCost(o)
        /\ inv1[sx].quote_balance = inv0[sx].quote_balance + SellValue(o)
        /\ inv1[bx].asset_balances["ETH"] = inv0[bx].asset_balances["ETH"] + o.trade_size
        /\ inv1[sx].asset_balances["ETH"] = inv0[sx].asset_balances["ETH"] - o.trade_size
        /\ total_quantity(books1[bx].asks) = total_quantity(books0[bx].asks) - o.trade_size
        /\ total_quantity(books1[sx].bids) = total_quantity(books0[sx].bids) - o.trade_size
        /\ r.after.total_pnl_usd = r.before.total_pnl_usd + o.expected_profit_usd
        /\ r.after.balance_usd = r.before.balance_usd + o.expected_profit_usd
        /\ r.after.executed_trades =
               IF Len(r.before.executed_trades) < TRADE_MAXLEN
               THEN Append(r.before.executed_trades, TradeOf(o))
               ELSE Append(Tail(r.before.executed_trades), TradeOf(o))
        /\ Len(QueueAfterOpportunity(r)) < QUEUE_MAXSIZE =>
               r.after.queue = Append(QueueAfterOpportunity(r),
                                      [kind |-> "trade", payload |-> TradeOf(o)])
        \* the frame: the other wallets, the other assets, the other sides
        /\ DOMAIN inv1 = DOMAIN inv0
        /\ \A x \in DOMAIN inv0 \ {bx, sx} : inv1[x] = inv0[x]
        /\ \A x \in {bx, sx} :
              /\ DOMAIN inv1[x].asset_balances = DOMAIN inv0[x].asset_balances
              /\ inv1[x].quote_asset = inv0[x].quote_asset
        /\ DOMAIN books1 = DOMAIN books0
        /\ \A x \in DOMAIN books0 \ {bx, sx} : books1[x] = books0[x]
        /\ books1[bx].bids = books0[bx].bids
        /\ books1[sx].asks = books0[sx].asks
        /\ r.after.simulation_volume_usd = r.before.simulation_volume_usd
\* C4: a completed simulated execution debits buy_cost from the buy venue's
\* quote balance, credits sell_value to the sell venue's, moves size of the base
\* asset from the sell venue to the buy venue, takes size off the buy book's asks
\* and off the sell book's bids, adds expected_profit_usd to total_pnl_usd and to
\* balance_usd, appends one trade and submits it; nothing else changes
C4_ExecutionFrame == \A r \in Records : r.completed => C4_Frame(r)
\* an execution completed whose reservation met a level already emptied
C4_Witness ==
    \E r \in Records :
        /\ r.completed
        /\ buy_book_of(r).asks[1].quantity < r.opportunity.trade_size


\* ---- C5
RECURSIVE SumOver(_, _)
\* the sum of f over the venues of S
SumOver(S, f) ==
    IF S = {} THEN 0
    ELSE LET x == CHOOSE y \in S : TRUE IN f[x] + SumOver(S \ {x}, f)
\* sum(quote balances across venues)
QuoteSum(view) ==
    SumOver(DOMAIN view.inventory_by_exchange,
            [x \in DOMAIN view.inventory_by_exchange |->
                view.inventory_by_exchange[x].quote_balance])
\* sum(base balances), in quantity ticks
BaseSum(view) ==
    SumOver(DOMAIN view.inventory_by_exchange,
            [x \in DOMAIN view.inventory_by_exchange |->
                view.inventory_by_exchange[x].asset_balances["ETH"]])
\* sum(base balances * reference price), in money ticks
BaseValue(view) ==
    ExactDiv(BaseSum(view) * MoneyScale * reference_asset_price("ETH"), QtyScale)
\* the transfer cost the evaluation of r took off its profit
TransferCostOf(r) ==
    estimate_transfer_fee([fees |-> fees, config |-> config,
                           order_books |-> r.before.order_books],
                          r.opportunity.symbol, r.opportunity.buy_vwap,
                          r.opportunity.buy_exchange)
\* the quantity of the claim, its transfer costs being those applied to the
\* wallets by transfers (none inside an execution that completes at once)
ConservedApplied(view) == QuoteSum(view) + BaseValue(view) + view.total_pnl_usd
\* C5 as stated: an execution leaves sum(quote balances) + sum(base balances *
\* reference price) - sum(transfer costs) + sum(realized PnL) where it was,
\* whether the transfer costs are the ones applied or the ones estimated
C5_AsStated ==
    \A r \in Records : r.completed =>
        \/ ConservedApplied(r.after) = ConservedApplied(r.before)
        \/ ConservedApplied(r.after) - TransferCostOf(r) = ConservedApplied(r.before)
\* C5: a completed execution leaves the sum of the base balances where it was,
\* raises the sum of the quote balances by sell_value - buy_cost, which is
\* expected_profit_usd plus the estimated transfer cost, and raises total_pnl_usd
\* by expected_profit_usd: sum(quote balances) + sum(base balances * reference
\* price) - sum(estimated transfer costs) - sum(realized PnL) is conserved
C5_Conservation ==
    \A r \in Records : r.completed =>
        /\ BaseSum(r.after) = BaseSum(r.before)
        /\ QuoteSum(r.after) - QuoteSum(r.before)
              = r.opportunity.expected_profit_usd + TransferCostOf(r)
        /\ r.after.total_pnl_usd - r.before.total_pnl_usd
              = r.opportunity.expected_profit_usd
        /\ QuoteSum(r.after) + BaseValue(r.after) - TransferCostOf(r)
               - r.after.total_pnl_usd
              = QuoteSum(r.before) + BaseValue(r.before) - r.before.total_pnl_usd
\* an execution completed and its evaluation took a transfer cost off the profit
C5_Witness ==
    \E r \in Records :
        /\ r.completed
        /\ TransferCostOf(r) > 0
        /\ r.opportunity.expected_profit_usd > 0

\* ---- C6
\* the latest n records of s
LatestOf(s, n) == IF Len(s) <= n THEN s ELSE SubSeq(s, Len(s) - n + 1, Len(s))
\* C6: the opportunity ring, the trades ring and the metrics ring never hold
\* more than their capacity, and an append to a full ring discards its oldest
\* record: after every append a ring holds the latest min(n, capacity) records
\* in the order they were appended
C6_RingsBounded ==
    /\ Len(opportunities) <= OPP_MAXLEN
    /\ Len(executed_trades) <= TRADE_MAXLEN
    /\ Len(metrics_log) <= METRICS_MAXLEN
    /\ \A r \in Records :
          /\ r.after.opportunities =
                LatestOf(Append(r.before.opportunities, r.opportunity), OPP_MAXLEN)
          /\ Len(r.after.metrics_log) >= 1
          /\ r.after.metrics_log =
                LatestOf(Append(r.before.metrics_log,
                                r.after.metrics_log[Len(r.after.metrics_log)]),
                         METRICS_MAXLEN)
          /\ r.after.metrics_log[Len(r.after.metrics_log)].pair
                = <<r.opportunity.buy_exchange, r.opportunity.sell_exchange>>
          /\ r.after.executed_trades =
                IF r.completed
                THEN LatestOf(Append(r.before.executed_trades, TradeOf(r.opportunity)),
                              TRADE_MAXLEN)
                ELSE r.before.executed_trades
\* an execution appended its records to three full rings
C6_Witness ==
    \E r \in Records :
        /\ r.completed
        /\ Len(r.before.opportunities) = OPP_MAXLEN
        /\ Len(r.before.metrics_log) = METRICS_MAXLEN
        /\ Len(r.before.executed_trades) = TRADE_MAXLEN
        /\ r.after.executed_trades[1] = r.before.executed_trades[2]

\* ---- C7
\* the queue after an event was offered to q
Offered(q, kind, payload) ==
    IF Len(q) < QUEUE_MAXSIZE THEN Append(q, [kind |-> kind, payload |-> payload])
    ELSE q
\* C7: submit_opportunity and submit_trade never block: below capacity the event
\* is appended, at capacity it is dropped and the queue stays as it is; the
\* queue never exceeds its capacity, and on_order_book runs to its end whether
\* or not the queue is full
C7_SubmitNeverBlocks ==
    /\ Len(queue) <= QUEUE_MAXSIZE
    /\ \A r \in Records :
          LET q1 == IF r.opportunity.status = "accepted"
                    THEN Offered(r.before.queue, "opportunity", r.opportunity)
                    ELSE r.before.queue
              q2 == IF r.completed THEN Offered(q1, "trade", TradeOf(r.opportunity))
                    ELSE q1
          IN  /\ r.after.queue = q2
              \* the turn went on past its submits: the metrics sample that
              \* follows submit_opportunity is there
              /\ r.after.metrics_log # <<>>
              /\ r.after.metrics_log[Len(r.after.metrics_log)] =
                     [expected_profit_usd |-> r.opportunity.expected_profit_usd,
                      status |-> r.opportunity.status, reason |-> r.opportunity.reason,
                      pair |-> <<r.opportunity.buy_exchange, r.opportunity.sell_exchange>>,
                      trigger_exchange |->
                          r.after.metrics_log[Len(r.after.metrics_log)].trigger_exchange]
    \* a call that has ended has evaluated every directed pair of its symbol
    /\ (\A v \in Venues : feed[v].pc # "eval") =>
          \A s \in Symbols :
             evaluations # <<>> =>
                \E n \in 2..Len(order_books[s].keys) : Len(evaluations) = n * (n - 1)
\* an accepted opportunity and its trade were offered to a full queue and dropped
C7_Witness ==
    \E r \in Records :
        /\ r.completed
        /\ Len(r.before.queue) = QUEUE_MAXSIZE
        /\ r.after.queue = r.before.queue

\* ---- C8
\* the payloads of the events of one kind the worker has finished with, in order
HandledOf(kind) ==
    LET es == SelectSeq(handled, LAMBDA h : h.event.kind = kind)
    IN  [i \in 1..Len(es) |-> es[i].event.payload]
\* C8 as stated: every event the worker has taken off the queue and finished
\* with is one row of the table of its kind, in the order of the queue: the
\* opportunity events are the rows of opportunities, the trade events the rows
\* of trades
C8_AsStated ==
    /\ database.opportunities = HandledOf("opportunity")
    /\ database.trades = HandledOf("trade")
\* what the worker does write: the trade events, and no opportunity event
C8_OnlyTradesWritten ==
    /\ database.opportunities = <<>>
    /\ database.trades = HandledOf("trade")
    /\ \A i \in 1..Len(handled) :
          handled[i].written <=> handled[i].event.kind = "trade"

\* ---- C9
\* PersistenceManager.stop has returned
StopReturned == service.pc \in {"persistence_stopped", "stopped"}
\* what holds of a stop that has got this far
C9_StopOrder ==
    /\ service.pc = "sentinel_put" =>
          \/ worker.pc = "ended"
          \/ queue # <<>> /\ queue[Len(queue)].kind = "sentinel"
    /\ StopReturned =>
          /\ worker.pc = "ended"
          /\ queue = <<>>
          /\ [i \in 1..Len(handled) |-> handled[i].event] = service.before_sentinel
    /\ ~database.open =>
          /\ \A v \in Venues : feed[v].pc = "cancelled"
          /\ worker.pc = "ended"
\* C9: PersistenceManager.stop puts its sentinel on the queue and returns only
\* after the worker has taken it and ended; every event queued before the
\* sentinel has by then been handled, written or discarded; stop does return;
\* and ArbitrageService.stop closes the database only after the feeds are
\* stopped and the worker has ended
C9_Shutdown ==
    /\ []C9_StopOrder
    /\ (service.pc = "feeds_stopped") ~> StopReturned
\* a stop has returned and closed the database after the worker handled the
\* events queued before the sentinel, writing one and discarding another
C9_Witness ==
    /\ service.pc = "stopped"
    /\ ~database.open
    /\ Len(service.before_sentinel) >= 2
    /\ \E i \in 1..Len(handled) : handled[i].written
    /\ \E i \in 1..Len(handled) : ~handled[i].written

\* ---- C10
\* C10: a venue's books are applied in the order its adapter received them: the
\* adapter has read at most one book that is not yet applied, it reads no book
\* while the on_order_book call of the one before has not returned, and the book
\* stored for the venue is the latest one it delivered
C10_PerVenueOrder ==
    \A v \in Venues :
        /\ feed[v].pc = "read" => feed[v].produced = feed[v].applied
        /\ feed[v].pc = "wait" =>
              /\ feed[v].produced = feed[v].applied + 1
              /\ feed[v].book.exchange_timestamp = feed[v].produced
        /\ feed[v].pc = "eval" =>
              /\ feed[v].produced = feed[v].applied
              /\ feed[v].book.exchange_timestamp = feed[v].produced
        /\ \A s \in Symbols :
              IF v \in DOMAIN order_books[s].book
              THEN /\ feed[v].applied >= 1
                   /\ order_books[s].book[v].exchange_timestamp = feed[v].applied
              ELSE feed[v].applied = 0
\* a venue delivered two books, both calls have returned, and the second book
\* is the one stored
C10_Witness ==
    \E v \in Venues :
        /\ feed[v].applied = 2
        /\ feed[v].pc = "read"
        /\ order_books["ETHUSDT"].book[v].exchange_timestamp = 2
        /\ order_books["ETHUSDT"].book[v].asks # Shapes["Low"].asks

\* ---- C11
\* a book is stored once, when its call gets inside the lock, and a venue has
\* at most one call that has not stored its book
C11_AppliedOnce ==
    \A v \in Venues :
        /\ feed[v].applied <= feed[v].produced
        /\ feed[v].produced - feed[v].applied <= 1
        /\ feed[v].pc = "read" => feed[v].applied = feed[v].produced
\* the count of stored books moves only by one store of one call
C11_OneStorePerCall ==
    \A v \in Venues :
        IF feed[v].pc # "eval" /\ feed'[v].pc = "eval"
        THEN feed'[v].applied = feed[v].applied + 1
        ELSE feed'[v].applied = feed[v].applied
\* C11: every on_order_book call that starts gets the lock and finishes, with
\* the requests of the facade running against the same lock: the books the
\* feeds have delivered are each stored once, and a call that waits or
\* evaluates leads to the adapter back at its read with all its books applied
C11_AllCallsComplete ==
    /\ []C11_AppliedOnce
    /\ [][C11_OneStorePerCall]_vars
    /\ \A v \in Venues :
          (feed[v].pc \in {"wait", "eval"})
              ~> (feed[v].pc = "read" /\ feed[v].applied = feed[v].produced)
\* the feeds have delivered all the books of the run, from two venues or more,
\* and every call has completed; a request ran meanwhile
C11_Witness ==
    /\ TotalProduced = MaxQueryBooks
    /\ \A v \in Venues : feed[v].pc = "read" /\ feed[v].applied = feed[v].produced
    /\ Cardinality({v \in Venues : feed[v].applied >= 1}) >= 2
    /\ requests >= 1
    /\ lock_free(lock)

\* ---- C12
\* the engine as ArbitrageEngine.__init__ leaves it, with this run's config
InitialEngine ==
    [Eng EXCEPT !.order_books = [s \in Symbols |-> [keys |-> <<>>, book |-> <<>>]],
                !.inventory_by_exchange =
                    build_initial_inventory(Venues, {split_symbol_pair(s)[1] : s \in Symbols}),
                !.total_pnl_usd = 0,
                !.balance_usd = config.starting_balance_usd,
                !.opportunities = <<>>,
                !.executed_trades = <<>>,
                !.metrics_log = <<>>,
                !.simulation_volume_usd = NoVolume,
                !.queue = <<>>,
                !.evaluations = <<>>]
\* every call has returned and the simulation volume was never set
AllCallsReturned ==
    /\ requests = 0
    /\ \A v \in Venues : feed[v].pc = "read"
\* the books the feeds delivered, feed after feed in the order of the venues,
\* each feed's books in its own order
RECURSIVE books_in_venue_order(_)
books_in_venue_order(i) ==
    IF i > Len(VenueOrder) THEN <<>>
    ELSE (IF VenueOrder[i] \in Venues THEN feed[VenueOrder[i]].delivered ELSE <<>>)
         \o books_in_venue_order(i + 1)
\* C12 as stated: whatever the order in which the calls of distinct feeds
\* went through the lock, the wallets and the realized PnL are those of the
\* same books applied feed after feed
C12_AsStated ==
    AllCallsReturned =>
        LET sequential == on_order_books(InitialEngine, books_in_venue_order(1), 1)
        IN  /\ inventory_by_exchange = sequential.inventory_by_exchange
            /\ total_pnl_usd = sequential.total_pnl_usd

\* ---- C13
\* the pcs of a task that has not ended
TaskPcs == {"read", "wait", "eval", "retry", "cancelling"}
C13_TaskCount ==
    \A v \in Venues :
        /\ feed[v].tasks <= 1
        /\ task_running(feed[v]) <=> feed[v].pc \in TaskPcs
        /\ task_running(feed[v]) => start(feed[v]) = feed[v]
        /\ feed[v].stop = "returned" =>
              /\ ~task_running(feed[v])
              /\ stop(feed[v]) = feed[v]
C13_StopStep ==
    \A v \in Venues :
        /\ (feed[v].stop = "awaiting" /\ feed'[v].stop = "returned") =>
               ~task_running(feed[v])
        /\ (feed[v].stop = "returned" /\ feed'[v].stop = "returned") =>
               /\ feed'[v].produced = feed[v].produced
               /\ feed'[v].applied = feed[v].applied
\* C13: an adapter has one ingestion task at most, and start() on an adapter
\* whose task runs changes nothing; stop() returns only when the task has
\* ended; while an adapter is stopped it delivers no book and no call of it
\* stores one; stop() on a stopped adapter changes nothing
C13_OneTaskPerAdapter == []C13_TaskCount /\ [][C13_StopStep]_vars
\* an adapter that delivered a book was stopped while waiting for the lock,
\* its stop has returned, and another adapter goes on
C13_Witness ==
    \E v \in Venues :
        /\ feed[v].stop = "returned"
        /\ feed[v].pc = "cancelled"
        /\ feed[v].produced = feed[v].applied + 1
        /\ \E u \in Venues \ {v} : feed[u].tasks = 1 /\ feed[u].applied >= 1

\* ---- C14
C14_FailureStep ==
    \A v \in Venues :
        (feed[v].pc = "read" /\ feed'[v].pc \notin {"read", "wait", "eval", "cancelling"}) =>
            /\ feed'[v].pc = "retry"
            /\ feed'[v].tasks = feed[v].tasks
            /\ feed'[v].running = feed[v].running
            /\ evars' = evars
            /\ lock' = lock
\* C14: a failure in the run loop leaves the task alive and the engine (its
\* fields, the queue to persistence, the lock) as it was, and a task that
\* sleeps after a failure goes back to reading, the adapter not being stopped
C14_FailuresAbsorbed ==
    /\ [][C14_FailureStep]_vars
    /\ [](\A v \in Venues : feed[v].pc = "retry" => task_running(feed[v]) /\ feed[v].running)
    /\ \A v \in Venues :
          (feed[v].pc = "retry") ~> (feed[v].pc = "read")
\* an adapter that has delivered a book fails and sleeps before its retry,
\* the engine holds its book, and another adapter has failed before it
\* delivered any
C14_Witness ==
    \E v \in Venues :
        /\ feed[v].pc = "retry"
        /\ feed[v].applied = 1
        /\ order_books["ETHUSDT"].book[v].exchange_timestamp = 1
        /\ \E u \in Venues \ {v} : feed[u].pc = "retry" /\ feed[u].applied = 0

\* ---- C15
\* the quote balances of the wallets, and their mean
quote_of(x) == inventory_by_exchange[x].quote_balance
mean_quote ==
    LET keys == wallet_keys(Eng)
    IN  ExactDiv(sum_seq(keys, [x \in DOMAIN inventory_by_exchange |-> quote_of(x)]),
                 Len(keys))
Rebalanced == \E h \in Handlers : handler[h].request.op = "rebalance_quotes"
\* C15 as stated: when rebalance_quotes has returned every wallet is within
\* one cent of the mean of the quote balances
C15_AsStated ==
    Rebalanced =>
        \A x \in DOMAIN inventory_by_exchange :
            /\ quote_of(x) - mean_quote <= Cents(1)
            /\ mean_quote - quote_of(x) <= Cents(1)

\* ---- C16
C16_Step ==
    (inventory_by_exchange = FourWallets /\ requests' = requests + 1) =>
        /\ rebalance_quotes(Eng).transfers = 3
        /\ rebalance_quotes(Eng).moved_quote_usd = Cents(300000)
        /\ rebalance_quotes(Eng).target_quote_usd = Cents(200000)
        /\ inventory_by_exchange' = wallets_of(VenueOrder, <<200000, 200000, 200000, 200000>>)
        /\ total_pnl_usd' = total_pnl_usd - 3 * transfer_cost_for_asset(Eng, "USDT", "a")
        /\ balance_usd' = balance_usd - 3 * transfer_cost_for_asset(Eng, "USDT", "a")
        /\ transfer_cost_for_asset(Eng, "USDT", "a") = Cents(100)
\* C16: rebalance_quotes on wallets of 5000, 1000, 1000 and 1000 USD reports
\* three transfers, 3000 USD moved and a target of 2000 USD, leaves 2000 USD
\* in every wallet and takes three transfer costs of the first venue's quote
\* asset off total_pnl_usd and off balance_usd
C16_FourWallets == [][C16_Step]_vars
\* the four wallets after the rebalance
C16_Witness ==
    /\ Rebalanced
    /\ DOMAIN inventory_by_exchange = {"a", "b", "c", "d"}
    /\ \A x \in DOMAIN inventory_by_exchange : quote_of(x) = Cents(200000)
    /\ total_pnl_usd = -Cents(300)
    /\ balance_usd = config.starting_balance_usd - Cents(300)

\* ---- C17
\* the ring a listing reads
ring_of(q) ==
    CASE q.op = "list_opportunities" -> opportunities
      [] q.op = "list_trades" -> executed_trades
      [] q.op = "spread_series" -> metrics_log
Listings == {q \in Requests : q.op \in {"list_opportunities", "list_trades", "spread_series"}}
\* the listings that return from memory
Returned == {q \in Listings : engine_operation(Eng, q).returned}
\* C17 as stated: a listing returns `limit` items at most, for limit = 0 too,
\* and without a symbol filter or a simulation volume they are the latest
\* `limit` records of its ring, oldest first
C17_AsStated ==
    \A q \in Returned :
        /\ Len(engine_operation(Eng, q).result) <= q.limit
        /\ (q.symbols = {} /\ q.volume = NoVolume) =>
               engine_operation(Eng, q).result = LatestOf(ring_of(q), q.limit)
\* the same for limit >= 1
C17_PositiveLimits ==
    \A q \in Returned :
        q.limit >= 1 =>
            /\ Len(engine_operation(Eng, q).result) <= q.limit
            /\ (q.symbols = {} /\ q.volume = NoVolume) =>
                   engine_operation(Eng, q).result = LatestOf(ring_of(q), q.limit)

\* ---- C18
ReadOnlyRequests == {q \in Requests : q.op # "rebalance_quotes"}
C18_Leaves ==
    \A q \in ReadOnlyRequests : engine_operation(Eng, q).e = Eng
C18_Step ==
    \A h \in Handlers :
        (handler[h].pc = "called" /\ handler'[h].pc # "called" /\ evars' # evars) =>
            /\ handler'[h].pc = "idle"
            /\ SetEng(rebalance_quotes(Eng).e)
\* C18: snapshot, list_opportunities (with a simulation volume too),
\* list_trades and spread_series leave every field of the engine as it was:
\* books, wallets, total_pnl_usd, balance_usd, simulation_volume_usd, the
\* three rings and the queue to persistence; a request that changes the
\* engine is a rebalance
C18_ReadOnly == []C18_Leaves /\ [][C18_Step]_vars
\* list_trades has run on an engine with books of two venues, recorded
\* opportunities and samples, and awaits the store
C18_Witness ==
    \E h \in Handlers :
        /\ handler[h].pc = "store"
        /\ handler[h].request.op = "list_trades"
        /\ Len(order_books["ETHUSDT"].keys) >= 2
        /\ opportunities # <<>>
        /\ metrics_log # <<>>

\* ---- C19
\* what the ring gives request q of list_opportunities or list_trades
memory_items(q) == symbol_filter(slice_last(ring_of(q), q.limit), q.symbols)
StoreListings == {q \in Requests : q.op \in {"list_opportunities", "list_trades"}}
C19_Delegates ==
    /\ \A q \in StoreListings :
          (memory_items(q) = <<>> /\ q.volume = NoVolume) =>
              ~engine_operation(Eng, q).returned
    /\ \A h \in Handlers :
          /\ handler[h].pc # "raised"
          /\ handler[h].pc = "store" =>
                /\ handler[h].request \in StoreListings
                /\ memory_items(handler[h].request) = <<>>
                /\ lock.holder = h
                /\ store_answer(database, handler[h].request, TRUE) = <<>>
                /\ ~store_raises(TRUE)
C19_ReturnStep ==
    \A h \in Handlers :
        (handler[h].pc = "store" /\ handler'[h].pc # "store") =>
            /\ handler'[h].pc = "idle"
            /\ lock' = lock_release(lock)
            /\ lock'.holder # h
            /\ evars' = evars
\* C19: a list_opportunities or list_trades call whose ring gives nothing
\* goes to the store's listing; when that raises, the call returns the empty
\* list, raises nothing and leaves the lock
C19_StoreFallback == []C19_Delegates /\ [][C19_ReturnStep]_vars
\* list_trades awaits a store that holds a row it would return
C19_Witness ==
    \E h \in Handlers :
        /\ handler[h].pc = "store"
        /\ handler[h].request.op = "list_trades"
        /\ store_answer(database, handler[h].request, FALSE) # <<>>

\* ---- C20
\* C20 as stated: no request holds the engine's lock while it awaits the
\* store's listing, so that a feed's on_order_book call is not kept waiting
\* by it
C20_AsStated ==
    \A h \in Handlers :
        handler[h].pc = "store" =>
            /\ lock.holder # h
            /\ \A v \in Venues : feed[v].pc # "wait"

\* ---------------------------------------------------------------- C21
\* the latest call of op has returned and no later call has begun
Completed(op) ==
    /\ service.pc = "running"
    /\ service.call.done
    /\ service.call.op = op

\* after set_symbol has returned: the configuration holds the new symbol,
\* every feed task that runs belongs to an adapter bound to it, each enabled
\* venue has exactly one such task and no other venue has any, and the engine
\* holds no book of the symbol before
C21_Switched ==
    Completed("set_symbol") =>
        /\ service.call.symbol # service.call.previous
        /\ config.symbol = service.call.symbol
        /\ books_of(Eng, service.call.previous).keys = <<>>
        /\ DOMAIN books_of(Eng, service.call.previous).book = {}
        /\ service.feeds = config.enabled
        /\ \A v \in Venues :
              /\ task_running(feed[v]) => feed[v].symbol = service.call.symbol
              /\ feed[v].tasks = IF v \in config.enabled THEN 1 ELSE 0
              /\ v \in config.enabled => feed[v].running /\ feed[v].pc \in {"read", "wait", "eval"}

\* the steps of set_symbol itself: its start, the stop() tasks it awaits and
\* its part after _stop_feeds
C21_CallStep ==
    /\ service' # service
    /\ service'.call.op = "set_symbol"

\* no step of set_symbol changes a wallet
C21_WalletsKept == C21_CallStep => inventory_by_exchange' = inventory_by_exchange

C22_AsStated ==
    (Completed("set_exchange_enabled") /\ ~service.call.enabled) =>
        /\ service.call.exchange \notin config.enabled
        /\ \A s \in DOMAIN order_books :
              service.call.exchange \notin DOMAIN order_books[s].book
        /\ ~task_running(feed[service.call.exchange])
        /\ \A v \in config.enabled : task_running(feed[v])

\* ---------------------------------------------------------------- C23
\* the evaluation of scenario 1: venue a's asks are [(100.0, 10)], venue b's
\* bids are [(101.0, 10)], both fees are 0.001, the size is the configured
\* 1.0 and the funds suffice
Scenario1(r) ==
    /\ r.opportunity.buy_exchange = "a"
    /\ r.opportunity.sell_exchange = "b"
    /\ buy_book_of(r).asks = ScenarioShapes["AskOnly"].asks
    /\ sell_book_of(r).bids = ScenarioShapes["BidOnly"].bids
    /\ fees["a"] = 1 /\ fees["b"] = 1
    /\ r.before.simulation_volume_usd = NoVolume
    /\ config.trade_size = QtyScale
    /\ r.opportunity.trade_size = QtyScale
    /\ r.before.inventory_by_exchange["a"].quote_balance
          >= times_size(unit_with_fee(100 * MoneyScale, 1), QtyScale)
    /\ r.before.inventory_by_exchange["b"].asset_balances["ETH"] >= QtyScale

\* (101 * 0.999 - 100 * 1.001) * 1 = 0.799, money ticks
Scenario1Gross ==
    times_size(unit_after_fee(101 * MoneyScale, 1) - unit_with_fee(100 * MoneyScale, 1),
               QtyScale)

\* the evaluation of the reverse direction made by the same update
Reverse(r, q) ==
    /\ q.opportunity.buy_exchange = r.opportunity.sell_exchange
    /\ q.opportunity.sell_exchange = r.opportunity.buy_exchange

\* the reverse direction has depth to fill the size on both of its sides
ReverseHasDepth(q) == buy_book_of(q).asks # <<>> /\ sell_book_of(q).bids # <<>>

LastVolumeGiven ==
    LET h == CHOOSE x \in Handlers : TRUE
    IN  IF handler[h].request.op = "set_simulation_volume_usd"
        THEN handler[h].request.volume ELSE NoVolume

\* the override is the last value given when that was positive, and none otherwise
C24_Override ==
    simulation_volume_usd = IF LastVolumeGiven > 0 THEN LastVolumeGiven ELSE NoVolume

\* the size of an evaluation made with override volume on a buy book whose
\* best ask is ask
C24_Size(r) ==
    LET volume == r.before.simulation_volume_usd
        ask == best_ask(buy_book_of(r))
    IN  IF volume = NoVolume THEN config.trade_size
        ELSE IF ask <= 0 THEN 0
        ELSE ExactDiv(QtyScale * volume, ask)

levels_of(book) ==
    {book.bids[i] : i \in 1..Len(book.bids)} \cup {book.asks[i] : i \in 1..Len(book.asks)}

\* C25: every order book the engine holds has no level of quantity zero,
\* after any sequence of on_order_book calls, those that run simulated
\* executions and consume depth included.
C25_AsStated ==
    \A s \in DOMAIN order_books :
        \A v \in DOMAIN order_books[s].book :
            \A level \in levels_of(order_books[s].book[v]) : level.quantity # 0

\* ---------------------------------------------------------------- C26
\* the prices of a side never rise (order = 1: descending) or never fall
\* (order = -1: ascending) along it
in_price_order(side, order) ==
    \A i \in 1..Len(side) - 1 : order * side[i].price >= order * side[i + 1].price

\* C26: every book an adapter delivers, the simulated adapter's books of two
\* or more levels included, has its bids in descending and its asks in
\* ascending price order, so that the first element of each side is the best
\* price.
C26_AsStated ==
    \A v \in Venues :
        \A k \in 1..Len(feed[v].delivered) :
            /\ in_price_order(feed[v].delivered[k].bids, 1)
            /\ in_price_order(feed[v].delivered[k].asks, 0 - 1)

\* ---------------------------------------------------------------- C27
\* C27: the delay of a streaming adapter before its next reconnect attempt
\* is 1 s after the first failed cycle, doubles with each further failed
\* cycle in a row up to 30 s, and is back at 1 s once a message was read.
C27_AsStated ==
    \A v \in Venues :
        feed[v].pc = "retry" => feed[v].delay = Min(30, 2 ^ (feed[v].failures - 1))

\* ---------------------------------------------------------------- C28
\* C28: a connected streaming adapter that has received no message for the
\* staleness budget of 10 s abandons the connection and reconnects: it is
\* never still waiting at its read after more than 10 s of silence.
C28_AsStated ==
    \A v \in Venues :
        feed[v].pc = "read" => feed[v].silent_for <= STALE_TIMEOUT_SEC

\* ---------------------------------------------------------------- C29
\* the event the worker finished with last was not written
LastFailed == handled # <<>> /\ ~handled[Len(handled)].written

\* the step that ends an insert: the worker is back at its get with nothing
\* in hand, the queue is as it was, the event is recorded as handled once,
\* and a failed insert left the database as it was
C29_InsertStep ==
    (worker.pc = "insert" /\ worker'.pc # "insert") =>
        /\ worker'.pc = "get"
        /\ worker'.event = NoEvent
        /\ queue' = queue
        /\ Len(handled') = Len(handled) + 1
        /\ handled'[Len(handled')].event = worker.event
        /\ (~handled'[Len(handled')].written => database' = database)

\* the step that ends the worker is the get that takes the sentinel
C29_EndStep ==
    (worker.pc # "ended" /\ worker'.pc = "ended") =>
        /\ worker.pc = "get"
        /\ queue # <<>>
        /\ Head(queue) = Sentinel

\* C29: when the write of an event fails, the persistence worker discards the
\* event, without retrying it or putting it back on the queue, and keeps
\* running: the events behind it in the queue are still taken, and the worker
\* ends only when it takes the sentinel.
C29_FailureDiscarded ==
    /\ [][C29_InsertStep /\ C29_EndStep]_vars
    /\ (LastFailed /\ worker.pc = "get" /\ queue # <<>> /\ service.pc # "running")
           ~> (worker.pc # "get")

\* the worker has ended on the sentinel after an event whose write failed and
\* a later event that was written
C29_Witness ==
    /\ worker.pc = "ended"
    /\ \E i, j \in 1..Len(handled) :
          i < j /\ ~handled[i].written /\ handled[j].written

\* ---------------------------------------------------------------- C30
\* the last `maxlen` elements of a sequence: what a ring keeps
kept_by_ring(all, maxlen) == SubSeq(all, Len(all) - Min(Len(all), maxlen) + 1, Len(all))

\* what the queue holds of `all`: an event handed to a full queue is dropped
kept_by_queue(all) == SubSeq(all, 1, Min(Len(all), QUEUE_MAXSIZE))

\* the events turn r of the loop submits: its opportunity if accepted, then
\* the trade it executed, if it executed one
submitted_in(r) ==
    (IF r.opportunity.status = "accepted"
     THEN <<PersistEvent("opportunity", r.opportunity)>> ELSE <<>>)
    \o (IF r.completed
        THEN <<PersistEvent("trade", r.after.executed_trades[Len(r.after.executed_trades)])>>
        ELSE <<>>)

\* C30: every evaluation of on_order_book is appended to the opportunity ring
\* whatever its status; the opportunity is submitted to persistence only if it
\* is accepted, and then once; and a trade the turn executes is appended to
\* the trade ring and submitted once.  (An event submitted to a full queue is
\* dropped by the queue.)
C30_Submissions ==
    \A i \in 1..Len(evaluations) :
        LET r == evaluations[i]
        IN  /\ r.after.opportunities =
                   kept_by_ring(r.before.opportunities \o <<r.opportunity>>, OPP_MAXLEN)
            /\ r.after.queue = kept_by_queue(r.before.queue \o submitted_in(r))
            /\ r.after.executed_trades =
                   IF r.completed
                   THEN kept_by_ring(r.before.executed_trades
                                         \o <<SimulatedTrade(r.opportunity)>>, TRADE_MAXLEN)
                   ELSE r.before.executed_trades

\* one on_order_book call made an evaluation that was not accepted and one
\* that was accepted and executed, whose two events both went to the queue
C30_Witness ==
    /\ \E i \in 1..Len(evaluations) :
          /\ evaluations[i].opportunity.status # "accepted"
          /\ evaluations[i].after.queue = evaluations[i].before.queue
          /\ evaluations[i].after.opportunities # evaluations[i].before.opportunities
    /\ \E i \in 1..Len(evaluations) :
          /\ evaluations[i].opportunity.status = "accepted"
          /\ evaluations[i].completed
          /\ Len(evaluations[i].after.queue) = Len(evaluations[i].before.queue) + 2

\* ---------------------------------------------------------------- C31
\* the balance of an asset in the wallet of venue x of engine e, 0 without one
held(e, x, asset) ==
    IF x \notin DOMAIN e.inventory_by_exchange THEN 0
    ELSE IF asset = "quote" THEN e.inventory_by_exchange[x].quote_balance
    ELSE get_base_balance(e, x, asset)

\* the sum over the venues of the balances of an asset
RECURSIVE held_sum(_, _, _)
held_sum(e, xs, asset) ==
    IF xs = {} THEN 0
    ELSE LET x == CHOOSE y \in xs : TRUE
         IN  held(e, x, asset) + held_sum(e, xs \ {x}, asset)

\* engine e with the wallets and counters of engine d
with_money_of(e, d) ==
    [e EXCEPT !.inventory_by_exchange = d.inventory_by_exchange,
              !.total_pnl_usd = d.total_pnl_usd, !.balance_usd = d.balance_usd]

\* the result r of a transfer of `amount` of `asset` from x to y on engine e
\* is a failure that changed nothing, for one of the reasons of a failure, or
\* a success that moved `amount` and charged one cost
transfer_outcome(e, r, x, y, asset, amount, wallet_missing) ==
    \/ /\ ~r.ok
       /\ r.e = e
       /\ amount <= 0 \/ wallet_missing \/ held(e, x, asset) < amount
    \/ /\ r.ok
       /\ amount > 0 /\ held(e, x, asset) >= amount
       /\ held(r.e, x, asset) = held(e, x, asset) - amount
       /\ held(r.e, y, asset) = held(e, y, asset) + amount
       /\ \A z \in TransferVenues \ {x, y} : held(r.e, z, asset) = held(e, z, asset)
       /\ held_sum(r.e, TransferVenues, asset) = held_sum(e, TransferVenues, asset)
       /\ \A other \in {"quote", "ETH"} \ {asset} :
              \A z \in TransferVenues : held(r.e, z, other) = held(e, z, other)
       /\ e.total_pnl_usd - r.e.total_pnl_usd >= 0
       /\ e.balance_usd - r.e.balance_usd = e.total_pnl_usd - r.e.total_pnl_usd
       /\ with_money_of(r.e, e) = e

round_trips(columns, x) ==
    /\ ~from_model(columns, x).raised
    /\ to_model(columns, from_model(columns, x).row) = x

\* the trades the engine has produced round-trip
TradesRoundTrip ==
    \A i \in 1..Len(executed_trades) : round_trips(TradeColumns, executed_trades[i])

\* C32: every Opportunity and every SimulatedTrade the engine produces is
\* converted to its record without an error, and the record converted back is
\* equal to the original.
C32_AsStated ==
    /\ \A i \in 1..Len(opportunities) : round_trips(OpportunityColumns, opportunities[i])
    /\ TradesRoundTrip

\* ---------------------------------------------------------------- C33
\* the answer to listing request q is the q.limit latest records of the ring
\* that match its filter, when the ring holds that many
lists_latest_matching(ring, q) ==
    Len(symbol_filter(ring, q.symbols)) >= q.limit =>
        /\ engine_operation(Eng, q).returned
        /\ engine_operation(Eng, q).result = slice_last(symbol_filter(ring, q.symbols), q.limit)

\* C33: with a symbol filter, list_opportunities and list_trades return the
\* `limit` most recent records of the ring whose symbol is in the filter:
\* exactly `limit` of them when the ring holds that many, even with newer
\* records of other symbols between them.
C33_AsStated ==
    \A q \in SymbolListings :
        lists_latest_matching(IF q.op = "list_trades" THEN executed_trades
                              ELSE opportunities, q)

\* ---------------------------------------------------------------- C34
\* C34: in every reachable state balance_usd - total_pnl_usd is
\* config.starting_balance_usd: each simulated execution and each transfer
\* cost changes the two counters by the same amount.
C34_BalanceTracksPnl == balance_usd - total_pnl_usd = config.starting_balance_usd

\* an execution has been booked and a rebalance has then charged a transfer
\* cost: the realized PnL is below the PnL of the one trade
C34_Witness ==
    /\ Len(executed_trades) = 1
    /\ total_pnl_usd < executed_trades[1].pnl_usd
    /\ balance_usd # config.starting_balance_usd

\* ---------------------------------------------------------------- C35
\* the base assets of the symbols of the run
BaseAssets == {split_symbol_pair(s)[1] : s \in Symbols}
\* C35: for each base asset the sum of its balances over all the venues is in
\* every reachable state the sum the wallets were built with: no sequence of
\* on_order_book calls, with their simulated executions, and rebalance_quotes
\* calls creates or destroys base units
C35_BaseUnitsConserved ==
    \A asset \in BaseAssets :
        held_sum(Eng, DOMAIN inventory_by_exchange, asset)
            = held_sum([inventory_by_exchange |->
                            build_initial_inventory(Venues, BaseAssets)],
                       Venues, asset)

\* an execution has moved base units between two venues and a rebalance has
\* moved quote between wallets and charged its transfer cost
C35_Witness ==
    /\ Len(executed_trades) >= 1
    /\ \E x \in Venues, asset \in BaseAssets :
          held(Eng, x, asset)
              > build_initial_inventory(Venues, BaseAssets)[x].asset_balances[asset]
    /\ requests >= 1
    /\ Len(executed_trades) = 1
    /\ total_pnl_usd < executed_trades[1].pnl_usd

\* ---------------------------------------------------------------- C36
\* C36: the wallets start non-negative, and after any sequence of
\* on_order_book and rebalance_quotes calls the quote balance of every venue
\* and every balance of a base asset is >= 0
C36_NoOverdraft ==
    \A x \in DOMAIN inventory_by_exchange :
        /\ inventory_by_exchange[x].quote_balance >= 0
        /\ \A asset \in DOMAIN inventory_by_exchange[x].asset_balances :
              inventory_by_exchange[x].asset_balances[asset] >= 0

\* an execution has taken a buy wallet's quote balance and a sell wallet's
\* base balance down to zero, and a rebalance has moved quote between wallets
C36_Witness ==
    /\ \E r \in Records :
          /\ r.completed
          /\ held(r.after, r.opportunity.buy_exchange, "quote") = 0
          /\ held(r.after, r.opportunity.sell_exchange, "ETH") = 0
    /\ Len(executed_trades) = 1
    /\ requests >= 1
    /\ total_pnl_usd < executed_trades[1].pnl_usd

\* ---------------------------------------------------------------- C37
\* the wallets of view `after` are those of view `before` but for the buy
\* wallet, which paid `paid` and took `size`, and the sell wallet, which
\* received `received` and gave `size`
wallets_after_trade(before, after, o, paid, received) ==
    /\ DOMAIN after.inventory_by_exchange = DOMAIN before.inventory_by_exchange
    /\ \A x \in DOMAIN after.inventory_by_exchange :
          /\ held(after, x, "quote") = held(before, x, "quote")
                - (IF x = o.buy_exchange THEN paid ELSE 0)
                + (IF x = o.sell_exchange THEN received ELSE 0)
          /\ held(after, x, base_asset_of(o.symbol))
                = held(before, x, base_asset_of(o.symbol))
                  + (IF x = o.buy_exchange THEN o.trade_size ELSE 0)
                  - (IF x = o.sell_exchange THEN o.trade_size ELSE 0)
\* C37: whenever on_order_book invokes the simulator the buy wallet already
\* covers buy_cost and the sell wallet already holds the size, so that the
\* simulator attempts no transfer between venues and never abandons: an
\* accepted opportunity whose profit reaches the threshold, with
\* auto-simulation on, yields exactly one trade, and a turn of on_order_book
\* moves nothing between wallets but the two legs of that trade and charges
\* no transfer cost
C37_SimulatorFunded ==
    \A r \in Records :
        LET o == r.opportunity
            paid == buy_cost_of([fees |-> fees], o)
            received == sell_value_of([fees |-> fees], o)
        IN  /\ r.simulated <=>
                  /\ config.auto_simulate_execution
                  /\ o.status = "accepted"
                  /\ o.expected_profit_usd >= config.opportunity_threshold_usd
            /\ r.simulated =>
                  /\ held(r.before, o.buy_exchange, "quote") >= paid
                  /\ held(r.before, o.sell_exchange, base_asset_of(o.symbol)) >= o.trade_size
                  /\ r.completed
                  /\ wallets_after_trade(r.before, r.after, o, paid, received)
                  /\ r.after.total_pnl_usd = r.before.total_pnl_usd + o.expected_profit_usd
                  /\ r.after.executed_trades
                        = deque_append(r.before.executed_trades, SimulatedTrade(o),
                                       TRADE_MAXLEN)
            /\ ~r.simulated =>
                  /\ ~r.completed
                  /\ r.after.inventory_by_exchange = r.before.inventory_by_exchange
                  /\ r.after.total_pnl_usd = r.before.total_pnl_usd
                  /\ r.after.executed_trades = r.before.executed_trades

\* the simulator ran on a buy wallet that held buy_cost to the cent and a
\* sell wallet that held the size and no more; another opportunity was turned
\* down for lack of funds; a rebalance moved quote between venues
C37_Witness ==
    /\ \E r \in Records :
          /\ r.simulated
          /\ held(r.before, r.opportunity.buy_exchange, "quote")
                = buy_cost_of([fees |-> fees], r.opportunity)
          /\ held(r.before, r.opportunity.sell_exchange, "ETH") = r.opportunity.trade_size
    /\ \E r \in Records : r.opportunity.status = "no_funds"
    /\ requests >= 1
    /\ balance_usd - config.starting_balance_usd
          < executed_trades[Len(executed_trades)].pnl_usd

\* ---------------------------------------------------------------- C38
\* the total quantity of the levels of one side of a book
RECURSIVE depth_of(_)
depth_of(levels) ==
    IF levels = <<>> THEN 0 ELSE Head(levels).quantity + depth_of(Tail(levels))

\* side `side` of a book
side_of(book, side) == IF side = "asks" THEN book.asks ELSE book.bids

\* the size the completed executions among the first n turns of the update
\* recorded in evs took from the side `side` of the book of venue v
RECURSIVE consumed_in(_, _, _, _)
consumed_in(evs, n, v, side) ==
    IF n = 0 THEN 0
    ELSE LET o == evs[n].opportunity
             hits == IF side = "asks" THEN o.buy_exchange = v ELSE o.sell_exchange = v
         IN  (IF evs[n].completed /\ hits THEN o.trade_size ELSE 0)
                + consumed_in(evs, n - 1, v, side)

\* the venues that have a book of the configured symbol stored
stored_venues(books) == DOMAIN books[config.symbol].book

\* what is left of the books is what was delivered or less: a stored book is
\* the last one its venue delivered, level by level, with quantities between
\* zero and the delivered ones
C38_WithinDelivered ==
    \A v \in stored_venues(order_books) :
        LET stored == order_books[config.symbol].book[v]
            delivered == feed[v].delivered[Len(feed[v].delivered)]
        IN  /\ stored.exchange_timestamp = delivered.exchange_timestamp
            /\ \A side \in {"asks", "bids"} :
                  /\ Len(side_of(stored, side)) = Len(side_of(delivered, side))
                  /\ \A i \in 1..Len(side_of(stored, side)) :
                        /\ side_of(stored, side)[i].price = side_of(delivered, side)[i].price
                        /\ side_of(stored, side)[i].quantity >= 0
                        /\ side_of(stored, side)[i].quantity
                              <= side_of(delivered, side)[i].quantity

\* each turn of an update sees of each side the depth the update started
\* with less what the earlier executions of the update took from it
C38_TurnsSeeTheRest ==
    \A n \in 1..Len(evaluations) :
        LET r == evaluations[n]
            o == r.opportunity
            first == evaluations[1].before.order_books[o.symbol].book
        IN  /\ depth_of(buy_book_of(r).asks)
                  = depth_of(first[o.buy_exchange].asks)
                    - consumed_in(evaluations, n - 1, o.buy_exchange, "asks")
            /\ depth_of(sell_book_of(r).bids)
                  = depth_of(first[o.sell_exchange].bids)
                    - consumed_in(evaluations, n - 1, o.sell_exchange, "bids")

\* a step leaves of each side of each stored book the depth it had, or the
\* delivered depth when the step replaced the book, less the size of the
\* executions of the step that bought from its asks or sold into its bids
C38_StepConsumes ==
    \A v \in stored_venues(order_books') : \A side \in {"asks", "bids"} :
        LET updated == TotalProduced' # TotalProduced
            replaced == feed'[v].delivered # feed[v].delivered
            had == IF replaced
                   THEN depth_of(side_of(feed'[v].delivered[Len(feed'[v].delivered)], side))
                   ELSE depth_of(side_of(order_books[config.symbol].book[v], side))
            taken == IF updated
                     THEN consumed_in(evaluations', Len(evaluations'), v, side)
                     ELSE 0
        IN  depth_of(side_of(order_books'[config.symbol].book[v], side)) = had - taken

\* C38: between two replacements of a venue's book the simulated executions
\* that bought from its asks, or sold into its bids, never take more in total
\* than the depth the book had when it was stored, and what an execution has
\* taken is gone for every later pair evaluation, those of the same update
\* included: the stored depth is the delivered depth less the sizes of all
\* the executions since, and it never falls below zero
C38_DepthConsumedOnce ==
    /\ [](C38_WithinDelivered /\ C38_TurnsSeeTheRest)
    /\ [][C38_StepConsumes]_vars

\* in one update an execution took the whole ask depth of a book, and a later
\* turn that would buy from the same book and sell to another venue found no
\* depth
C38_Witness ==
    \E i, j \in 1..Len(evaluations) :
        /\ i < j
        /\ evaluations[i].completed
        /\ evaluations[j].opportunity.buy_exchange = evaluations[i].opportunity.buy_exchange
        /\ evaluations[j].opportunity.sell_exchange
              # evaluations[i].opportunity.sell_exchange
        /\ evaluations[j].opportunity.status = "insufficient_liquidity"
        /\ depth_of(buy_book_of(evaluations[j]).asks) = 0
        /\ depth_of(feed[evaluations[j].opportunity.buy_exchange].delivered[
                        evaluations[j].opportunity.buy_book_updated_at].asks) > 0

\* ---------------------------------------------------------------- C39
\* the transfers the loop of rebalance_quotes makes (lines 382-398), in their
\* order: the donor, the receiver, the amount and what the two wallets held
RECURSIVE rebalance_transfers(_, _, _, _)
rebalance_transfers(e, keys, wallets, target_balance) ==
    LET donor == first_max(keys, wallets)
        receiver == first_min(keys, wallets)
        transfer_amount == Min(wallets[donor] - target_balance,
                               target_balance - wallets[receiver])
        r == transfer_quote_between_exchanges(e, donor, receiver, transfer_amount)
    IN  IF transfer_amount <= ExactDiv(MoneyScale, 100) THEN <<>>
        ELSE IF ~r.ok THEN <<>>
        ELSE <<[donor |-> donor, receiver |-> receiver, amount |-> transfer_amount,
                donor_held |-> wallets[donor], receiver_held |-> wallets[receiver]]>>
             \o rebalance_transfers(r.e, keys,
                                    [wallets EXCEPT ![donor] = @ - transfer_amount,
                                                    ![receiver] = @ + transfer_amount],
                                    target_balance)

\* the wallets after the transfers of log, from the first to the last
RECURSIVE after_transfers(_, _)
after_transfers(wallets, log) ==
    IF log = <<>> THEN wallets
    ELSE after_transfers([wallets EXCEPT ![Head(log).donor] = @ - Head(log).amount,
                                         ![Head(log).receiver] = @ + Head(log).amount],
                         Tail(log))

\* a call of rebalance_quotes on n >= 2 wallets makes at most n - 1 transfers,
\* each from a wallet above the mean to a wallet below it, of an amount that
\* takes neither across the mean, and leaves the wallets those transfers
\* give; on fewer than 2 wallets it makes none and changes nothing
C39_Step ==
    requests' = requests + 1 =>
        LET keys == wallet_keys(Eng)
            n == Len(keys)
            wallets == [x \in DOMAIN inventory_by_exchange |-> quote_of(x)]
            result == rebalance_quotes(Eng)
        IN  IF n < 2
            THEN /\ result.transfers = 0
                 /\ result.e = Eng
                 /\ evars' = evars
            ELSE LET log == rebalance_transfers(Eng, keys, wallets, mean_quote)
                 IN  /\ result.transfers = Len(log)
                     /\ Len(log) <= n - 1
                     /\ \A i \in 1..Len(log) :
                           /\ log[i].amount > 0
                           /\ log[i].donor_held > mean_quote
                           /\ log[i].receiver_held < mean_quote
                           /\ log[i].donor_held - log[i].amount >= mean_quote
                           /\ log[i].receiver_held + log[i].amount <= mean_quote
                     /\ \A x \in DOMAIN inventory_by_exchange :
                           inventory_by_exchange'[x].quote_balance
                               = after_transfers(wallets, log)[x]
\* C39: rebalance_quotes terminates for every set of n >= 2 wallets with
\* non-negative quote balances after at most n - 1 transfers, every transfer
\* goes from a wallet above the mean to a wallet below it and takes neither
\* across the mean, and with fewer than 2 wallets it performs no transfer and
\* changes no state
C39_Rebalance == [][C39_Step]_vars

\* a rebalance of three wallets has returned after two transfers, the most
\* that three wallets allow
C39_Witness ==
    /\ requests = 1
    /\ Cardinality(DOMAIN inventory_by_exchange) = 3
    /\ total_pnl_usd = 0 - 2 * transfer_cost_for_asset(Eng, "USDT", "a")
    /\ total_pnl_usd < 0

\* ---------------------------------------------------------------- C40
\* the lock is held by, handed to and waited for by live on_order_book calls
\* alone: a task that was cancelled neither holds the lock nor waits for it
C40_LockWithTheLiving ==
    /\ lock.holder \in Venues => feed[lock.holder].pc \in {"wait", "eval"}
    /\ \A i \in 1..Len(lock.waiters) :
          lock.waiters[i] \in Venues => feed[lock.waiters[i]].pc = "wait"
    /\ \A v \in Venues :
          /\ feed[v].pc = "eval" => lock.holder = v
          /\ feed[v].pc \in {"cancelling", "cancelled", "unstarted"} =>
                /\ lock.holder # v
                /\ \A i \in 1..Len(lock.waiters) : lock.waiters[i] # v

\* a step that cancels the task of v finds it outside the locked stretch of
\* on_order_book; when it finds it waiting for the lock the engine is left as
\* it was, v leaves the lock and the waiters keep their order, the next of
\* them being handed a lock that v had been handed.  A step that stores a
\* book of v starts its evaluation, and the task leaves the evaluation only
\* with _evaluate_all_pairs run and the lock released.
C40_Step ==
    \A v \in Venues :
        /\ (feed[v].pc # "cancelling" /\ feed'[v].pc = "cancelling") =>
              /\ feed[v].pc \in {"read", "wait"}
              /\ evars' = evars
              /\ feed[v].pc = "wait" =>
                    /\ lock'.holder # v
                    /\ \A i \in 1..Len(lock'.waiters) : lock'.waiters[i] # v
                    /\ lock.holder # v =>
                          /\ lock'.holder = lock.holder
                          /\ lock'.waiters = SelectSeq(lock.waiters, LAMBDA t : t # v)
                    /\ lock.holder = v =>
                          lock' = lock_release([holder |-> None, waiters |-> lock.waiters])
        /\ feed'[v].applied # feed[v].applied =>
              /\ feed'[v].applied = feed[v].applied + 1
              /\ feed'[v].pc = "eval"
              /\ lock'.holder = v
        /\ (feed[v].pc = "eval" /\ feed'[v] # feed[v]) =>
              /\ feed'[v].pc = "read"
              /\ feed'[v].applied = feed[v].applied
              /\ SetEng(evaluate_all_pairs(Eng, feed[v].book.symbol, v))
              /\ lock' = lock_release(lock)
        /\ (feed[v].pc = "eval" /\ feed'[v] = feed[v]) => evars' = evars

\* C40: cancelling a feed task at any moment never leaves the engine mutex
\* held and never leaves a book stored without its pair evaluation having
\* run: the cancellation takes effect in on_order_book only while the call
\* waits to acquire the mutex, the engine state is then unchanged, and the
\* other feeds can still acquire the mutex
C40_CancelSafe == []C40_LockWithTheLiving /\ [][C40_Step]_vars

\* the first call of an adapter was cancelled while it waited for the mutex,
\* its book never stored; the adapter was started again and its second call
\* has acquired the mutex and stored its book
C40_Witness ==
    \E v \in Venues :
        /\ feed[v].pc = "eval"
        /\ lock.holder = v
        /\ feed[v].produced = 2
        /\ feed[v].applied = 1
        /\ \E u \in Venues \ {v} : feed[u].applied = 1
====
